---- MODULE Spec2Model ----
(***************************************************************************)
(* Model of shopify_query_analyzer: the version diff engine (diff.py) and  *)
(* the query extractors (extractors/*.py, query_collector.py).             *)
(*                                                                         *)
(* Python strings are modelled as sequences of tokens (a token stands for  *)
(* a run of characters), so that f-string formatting is concatenation and  *)
(* not the identity.                                                        *)
(***************************************************************************)
EXTENDS Integers, Sequences, FiniteSets, TLC

VARIABLES
    pc,               \* position of the modelled call: "start", then "done",
                      \* "mapped", "resolved", "analyzed", "analyzed_target",
                      \* "compared", "exited",
                      \* "visiting", "routed" or "processed"
    current_results,  \* diff(): argument current_results
    target_results,   \* diff(): argument target_results
    result,           \* diff(): the DiffResult being returned (items, summary)
    categorized,      \* diff(): the values of the local "items", one per matched
                      \* iteration, with the index of its current result
    extractor,        \* extract(): the extractor class the call is made on
    content,          \* extract(): argument content, the text of the file
    fs,               \* the files that imports of the file can resolve to
    outcome,          \* extract(): the exception raised, or the list returned
    library,          \* analyze_many(): per query, what graphql-core's parse,
                      \* validate and visit answer for it
    target_library,   \* the same for the analyzer of the target schema
    exit_code,        \* cli: the value of get_exit_code(diff_result)
    ast,              \* visit(): the fields of the document, in document order
    visitor,          \* DeprecationVisitor: _field_path, issues, and the event
                      \* of the traversal that was handled last
    routed_path,      \* QueryCollector: the path of the file that is routed
    _extractors       \* QueryCollector._extractors, the registry

diffVars == <<current_results, target_results, result, categorized>>
extractVars == <<extractor, content, fs, outcome>>
analysisVars == <<library>>
cliVars == <<target_library, exit_code>>
scanVars == <<ast, visitor>>
collectVars == <<routed_path, _extractors>>
vars == <<pc, current_results, target_results, result, categorized,
          extractor, content, fs, outcome, library, target_library, exit_code,
          ast, visitor, routed_path, _extractors>>

(***************************************************************************)
(* Bounds                                                                  *)
(***************************************************************************)
MaxResults == 2        \* longest current_results / target_results list
MaxTotalIssues == 2    \* issues over all results of such lists
MaxPairIssues == 3     \* issues over the two results of a single query
MaxBlocks == 2         \* statements (imports, templates, heredocs) of a file
MaxBody == 2           \* lines of the body of a template or heredoc
MaxReports == 2        \* errors and deprecated nodes reported for a batch
MaxFields == 3         \* fields of a document that is scanned

(***************************************************************************)
(* Generic helpers for Python values                                       *)
(***************************************************************************)
\* None; an Optional[str] is a sequence of at most one string
None == [none |-> TRUE]
NoStr == <<>>
Some(string) == <<string>>

Digits == <<"0", "1", "2", "3", "4", "5", "6", "7", "8", "9">>

\* str(int) for a non-negative int: its decimal digits
RECURSIVE str(_)
str(n) == IF n < 10 THEN <<Digits[n + 1]>>
          ELSE str(n \div 10) \o <<Digits[(n % 10) + 1]>>

\* s[:n]
Slice(s, n) == IF Len(s) <= n THEN s ELSE SubSeq(s, 1, n)

\* [f(x) for x in s]
MapSeq(s, F(_)) == [i \in 1..Len(s) |-> F(s[i])]

\* number of elements of s that satisfy P
CountSeq(s, P(_)) == Cardinality({i \in 1..Len(s) : P(s[i])})

\* sequences of exactly n elements of S
RECURSIVE SeqsOfLen(_, _)
SeqsOfLen(S, n) ==
    IF n = 0 THEN {<<>>}
    ELSE {Append(s, x) : s \in SeqsOfLen(S, n - 1), x \in S}

SeqsUpTo(S, n) == UNION {SeqsOfLen(S, k) : k \in 0..n}

\* A dict is modelled as a sequence of [key, value] entries in insertion
\* order.  d[k] = v keeps the position of an existing key and replaces its
\* value; a new key is appended.
DictKeys(d) == {d[i].key : i \in 1..Len(d)}

DictPut(d, k, v) ==
    IF k \in DictKeys(d)
    THEN [i \in 1..Len(d) |-> IF d[i].key = k THEN [key |-> k, value |-> v] ELSE d[i]]
    ELSE Append(d, [key |-> k, value |-> v])

\* d.get(k)
DictGet(d, k) ==
    IF k \in DictKeys(d)
    THEN (CHOOSE e \in {d[i] : i \in 1..Len(d)} : e.key = k).value
    ELSE None

(***************************************************************************)
(* analyzer.py: issue vocabulary                                           *)
(***************************************************************************)
ERROR == "error"
WARNING == "warning"
INFO == "info"
IssueSeverity == {ERROR, WARNING, INFO}

SYNTAX_ERROR == "syntax_error"
VALIDATION_ERROR == "validation_error"
DEPRECATED_FIELD == "deprecated_field"
DEPRECATED_ARGUMENT == "deprecated_argument"
DEPRECATED_ENUM_VALUE == "deprecated_enum_value"
IssueType == {SYNTAX_ERROR, VALIDATION_ERROR, DEPRECATED_FIELD,
              DEPRECATED_ARGUMENT, DEPRECATED_ENUM_VALUE}

\* Issue(type, severity, message, line, column, field_path, deprecation_reason)
Issue(t, sev, msg, line, col, fp, reason) ==
    [type |-> t, severity |-> sev, message |-> msg, line |-> line,
     column |-> col, field_path |-> fp, deprecation_reason |-> reason]

(***************************************************************************)
(* diff.py                                                                 *)
(***************************************************************************)
DEPRECATED_NOW == "deprecated_now"
BECOMES_DEPRECATED == "becomes_deprecated"
BREAKS_ON_UPGRADE == "breaks_on_upgrade"
ALREADY_BROKEN == "already_broken"
STILL_VALID == "still_valid"
DiffCategory == {DEPRECATED_NOW, BECOMES_DEPRECATED, BREAKS_ON_UPGRADE,
                 ALREADY_BROKEN, STILL_VALID}

\* DiffItem(category, query, issue, current_issue, target_issue)
DiffItem(cat, q, issue, tissue) ==
    [category |-> cat, query |-> q, issue |-> issue,
     current_issue |-> None, target_issue |-> tissue]

DiffSummary ==
    [total_queries |-> 0, still_valid |-> 0, deprecated_now |-> 0,
     becomes_deprecated |-> 0, breaks_on_upgrade |-> 0, already_broken |-> 0]

DiffResult == [items |-> <<>>, summary |-> DiffSummary]

\* str(path) of a pathlib.Path: the name of the file, stem and suffix
path_str(path) == path.stem \o <<path.suffix>>

\* f"{query.source_file}:{query.start_line}:{query.content[:100]}"
KeyContentLen == 100

_query_key(query) ==
    path_str(query.source_file) \o <<":">> \o str(query.start_line) \o <<":">>
        \o Slice(query.content, KeyContentLen)

\* f"{field_path}" of an Optional[str]: None is formatted as "None"
format_field(field_path) ==
    IF field_path = NoStr THEN <<"None">> ELSE field_path

\* Faulty variant of _issue_key: the key also holds the line of the issue.
_issue_key_with_line(issue) ==
    <<issue.type>> \o <<":">> \o format_field(issue.field_path) \o <<":">>
        \o issue.message \o <<":">> \o str(issue.line)

\* f"{issue.type.value}:{issue.field_path}:{issue.message}"
_issue_key(issue) ==
    <<issue.type>> \o <<":">> \o format_field(issue.field_path) \o <<":">>
        \o issue.message

\* Faulty variant of _deprecation_key: the key also holds the reason.
_deprecation_key_with_reason(issue) ==
    <<issue.type>> \o <<":">> \o issue.field_path \o <<":">>
        \o (IF issue.deprecation_reason = NoStr THEN <<"None">>
            ELSE issue.deprecation_reason[1])

\* f"{issue.type.value}:{issue.field_path}"
_deprecation_key(issue) == <<issue.type>> \o <<":">> \o issue.field_path

is_error(issue) == issue.severity = ERROR

is_deprecation(issue) ==
    issue.type \in {DEPRECATED_FIELD, DEPRECATED_ARGUMENT, DEPRECATED_ENUM_VALUE}

\* dict(entries) for a sequence of [key, value] entries: later entries win
RECURSIVE DictFrom(_, _)
DictFrom(entries, n) ==
    IF n = 0 THEN <<>>
    ELSE DictPut(DictFrom(entries, n - 1), entries[n].key, entries[n].value)

\* {key(i): i for i in issues if keep(i)}: a dict comprehension
DictOf(issues, Keep(_), Key(_)) ==
    LET kept == SelectSeq(issues, Keep)
        Entry(i) == [key |-> Key(i), value |-> i]
    IN  DictFrom(MapSeq(kept, Entry), Len(kept))

_get_deprecation_keys(res) ==
    {_deprecation_key(res.issues[i]) :
        i \in {j \in 1..Len(res.issues) : is_deprecation(res.issues[j])}}

_get_deprecation_map(res) ==
    DictOf(res.issues, is_deprecation, _deprecation_key)

\* Faulty variant of already_broken_items: the current errors go through a
\* dict keyed by _issue_key, as the target errors do.
already_broken_items_by_key(current) ==
    LET current_errors == DictOf(current.issues, is_error, _issue_key)
        Item(e) == DiffItem(ALREADY_BROKEN, current.query, e.value, None)
    IN  MapSeq(current_errors, Item)

\* "Already broken in current": one item per error-severity current issue
already_broken_items(current) ==
    LET Item(issue) == DiffItem(ALREADY_BROKEN, current.query, issue, None)
    IN  MapSeq(SelectSeq(current.issues, is_error), Item)

\* "Breaks on upgrade": for key, issue in target_errors.items()
breaks_on_upgrade_items(current, target) ==
    LET current_errors ==
            {_issue_key(current.issues[i]) :
                i \in {j \in 1..Len(current.issues) : is_error(current.issues[j])}}
        target_errors == DictOf(target.issues, is_error, _issue_key)
        New(e) == e.key \notin current_errors
        Item(e) == DiffItem(BREAKS_ON_UPGRADE, current.query, None, e.value)
    IN  MapSeq(SelectSeq(target_errors, New), Item)

\* "Deprecated now": one item per deprecation issue of the current result
deprecated_now_items(current) ==
    LET Item(issue) == DiffItem(DEPRECATED_NOW, current.query, issue, None)
    IN  MapSeq(SelectSeq(current.issues, is_deprecation), Item)

\* "Becomes deprecated": for key, issue in target_deprecations.items()
becomes_deprecated_items(current, target) ==
    LET current_deprecations == _get_deprecation_keys(current)
        target_deprecations == _get_deprecation_map(target)
        New(e) == e.key \notin current_deprecations
        Item(e) == DiffItem(BECOMES_DEPRECATED, current.query, None, e.value)
    IN  MapSeq(SelectSeq(target_deprecations, New), Item)

\* Faulty variant of _categorize_query: "if not items" is asked before the
\* deprecation items are added.
_categorize_query_early_still_valid(current, target) ==
    LET errors == already_broken_items(current)
                  \o breaks_on_upgrade_items(current, target)
        deprecations == deprecated_now_items(current)
                        \o becomes_deprecated_items(current, target)
    IN  IF errors = <<>>
        THEN <<DiffItem(STILL_VALID, current.query, None, None)>> \o deprecations
        ELSE errors \o deprecations

_categorize_query(current, target) ==
    LET items == already_broken_items(current)
                 \o breaks_on_upgrade_items(current, target)
                 \o deprecated_now_items(current)
                 \o becomes_deprecated_items(current, target)
    IN  IF items = <<>>
        THEN <<DiffItem(STILL_VALID, current.query, None, None)>>
        ELSE items

\* Faulty variant of update_summary: the elif chain has no branch for
\* BREAKS_ON_UPGRADE.
RECURSIVE update_summary_without_breaks(_, _, _)
update_summary_without_breaks(summary, items, n) ==
    IF n = 0 THEN summary
    ELSE LET s == update_summary_without_breaks(summary, items, n - 1)
             c == items[n].category
         IN  IF c = BREAKS_ON_UPGRADE THEN s ELSE [s EXCEPT ![c] = @ + 1]

\* the "for item in items" loop of diff(): one counter per item
RECURSIVE update_summary(_, _, _)
update_summary(summary, items, n) ==
    IF n = 0 THEN summary
    ELSE LET s == update_summary(summary, items, n - 1)
             c == items[n].category
         IN  [s EXCEPT ![c] = @ + 1]

\* {self._query_key(r.query): r for r in target_results}
RECURSIVE target_by_content(_, _)
target_by_content(targets, n) ==
    IF n = 0 THEN <<>>
    ELSE DictPut(target_by_content(targets, n - 1),
                 _query_key(targets[n].query), targets[n])

\* Faulty variant of diff_loop: total_queries is counted before the lookup
\* of the target is tested.
RECURSIVE diff_loop_counting_unmatched(_, _, _)
diff_loop_counting_unmatched(currents, by_content, n) ==
    IF n = 0 THEN [items |-> <<>>, summary |-> DiffSummary, categorized |-> <<>>]
    ELSE LET r == diff_loop_counting_unmatched(currents, by_content, n - 1)
             current == currents[n]
             target == DictGet(by_content, _query_key(current.query))
             counted == [r.summary EXCEPT !.total_queries = @ + 1]
         IN  IF target = None
             THEN [r EXCEPT !.summary = counted]
             ELSE LET items == _categorize_query(current, target)
                  IN  [items |-> r.items \o items,
                       summary |-> update_summary(counted, items, Len(items)),
                       categorized |-> Append(r.categorized,
                                              [index |-> n, items |-> items])]

\* Faulty variant of diff_loop: a target result is the counterpart of the
\* first current result with its key only.
RECURSIVE diff_loop_matching_once(_, _, _)
diff_loop_matching_once(currents, by_content, n) ==
    IF n = 0 THEN [items |-> <<>>, summary |-> DiffSummary, categorized |-> <<>>]
    ELSE LET r == diff_loop_matching_once(currents, by_content, n - 1)
             current == currents[n]
             target ==
                 IF \E m \in 1..(n - 1) :
                        _query_key(currents[m].query) = _query_key(current.query)
                 THEN None
                 ELSE DictGet(by_content, _query_key(current.query))
         IN  IF target = None
             THEN r
             ELSE LET items == _categorize_query(current, target)
                      counted == [r.summary EXCEPT !.total_queries = @ + 1]
                  IN  [items |-> r.items \o items,
                       summary |-> update_summary(counted, items, Len(items)),
                       categorized |-> Append(r.categorized,
                                              [index |-> n, items |-> items])]

\* The "for current in current_results" loop of diff(), over the first n
\* results.  Besides result.items and result.summary it yields, for every
\* iteration that reached _categorize_query, the value of the local "items".
RECURSIVE diff_loop(_, _, _)
diff_loop(currents, by_content, n) ==
    IF n = 0 THEN [items |-> <<>>, summary |-> DiffSummary, categorized |-> <<>>]
    ELSE LET r == diff_loop(currents, by_content, n - 1)
             current == currents[n]
             target == DictGet(by_content, _query_key(current.query))
         IN  IF target = None
             THEN r
             ELSE LET items == _categorize_query(current, target)
                      counted == [r.summary EXCEPT !.total_queries = @ + 1]
                  IN  [items |-> r.items \o items,
                       summary |-> update_summary(counted, items, Len(items)),
                       categorized |-> Append(r.categorized,
                                              [index |-> n, items |-> items])]

diff(currents, targets) ==
    diff_loop(currents, target_by_content(targets, Len(targets)), Len(currents))

(***************************************************************************)
(* output.py, and the properties of DiffSummary that it reads              *)
(***************************************************************************)
\* DiffSummary.has_breaking_changes
has_breaking_changes(summary) ==
    summary.breaks_on_upgrade > 0 \/ summary.already_broken > 0

\* an exit code that looks at the deprecations first
get_exit_code_deprecations_first(diff_result) ==
    IF diff_result.summary.deprecated_now > 0
           \/ diff_result.summary.becomes_deprecated > 0
    THEN 2
    ELSE IF has_breaking_changes(diff_result.summary) THEN 1
    ELSE 0

get_exit_code(diff_result) ==
    IF has_breaking_changes(diff_result.summary) THEN 1
    ELSE IF diff_result.summary.deprecated_now > 0
                \/ diff_result.summary.becomes_deprecated > 0
    THEN 2
    ELSE 0

(***************************************************************************)
(* extractors/base.py                                                      *)
(***************************************************************************)
\* ExtractedQuery(content, source_file, start_line, start_col, identifier)
ExtractedQuery(text, file, line, col, identifier) ==
    [content |-> text, source_file |-> file, start_line |-> line,
     start_col |-> col, identifier |-> identifier]

\* the result of a call: the value returned, or the exception raised
NoException == "none"
IndexError == "IndexError"
Returns(v) == [exc |-> NoException, value |-> v]
Raises(e) == [exc |-> e, value |-> <<>>]

(***************************************************************************)
(* extractors/typescript.py                                                *)
(*                                                                         *)
(* A file is a sequence of statements, a statement being an import, a      *)
(* `#graphql` template assigned to a constant, a gql`/graphql` tagged      *)
(* template, a template literal without tag, or one line of other code.    *)
(* The body of a template is a sequence of lines: an operation header      *)
(* ("query Q {"), an operation header without white space after its        *)
(* keyword ("query{"), other GraphQL text, a placeholder ${NAME}, or a     *)
(* blank line.  A placeholder stands for the text it is replaced by: the line    *)
(* break that follows it in the file is not told apart from the one that   *)
(* ends the fragment put in its place.                                     *)
(***************************************************************************)
OpLine == [kind |-> "op", ref |-> ""]
TightOpLine == [kind |-> "tightop", ref |-> ""]
TextLine == [kind |-> "text", ref |-> ""]
BlankLine == [kind |-> "blank", ref |-> ""]
Placeholder(name) == [kind |-> "ref", ref |-> name]

\* pathlib.Path: the stem and the suffix of the name of a file
Path(stem, suffix) == [stem |-> stem, suffix |-> suffix]
NoPath == Path(<<>>, "")

Statement(kind, name, imported, path, body) ==
    [kind |-> kind, name |-> name, imported |-> imported, path |-> path, body |-> body]
\* import { imported as name } from path
Import(imported, name, path) == Statement("import", name, imported, path, <<>>)
\* const name = `#graphql <body> `;
Template(name, body) == Statement("template", name, "", NoPath, body)
\* const name = gql` <body> `
Tagged(name, body) == Statement("gql", name, "", NoPath, body)
\* const name = `<body>`;  which none of the patterns matches
Literal(name, body) == Statement("literal", name, "", NoPath, body)

GRAPHQL_TEMPLATE_PATTERN == "template"
GRAPHQL_GQL_PATTERN == "gql"
Patterns == <<GRAPHQL_TEMPLATE_PATTERN, GRAPHQL_GQL_PATTERN>>

\* the capture groups of a pattern: (variable name, content) for the
\* `#graphql` pattern, (content) alone for the gql pattern
GroupCount(pattern) == IF pattern = GRAPHQL_TEMPLATE_PATTERN THEN 2 ELSE 1

\* pattern.finditer(content)
finditer(pattern, text) ==
    LET Hit(st) == st.kind = pattern IN SelectSeq(text, Hit)

\* the "\s*\n" that follows `#graphql takes the blank lines after it too:
\* the content group starts at the first line of the body that is not blank
after_opening(body) ==
    LET inked == {k \in 1..Len(body) : body[k] # BlankLine}
    IN  IF inked = {} THEN <<>>
        ELSE SubSeq(body, CHOOSE k \in inked : \A m \in inked : k <= m, Len(body))

\* match.group(1) and match.group(2), where the pattern has that group
group1(pattern, match) ==
    IF pattern = GRAPHQL_TEMPLATE_PATTERN THEN match.name ELSE match.body
group2(pattern, match) == after_opening(match.body)

\* a loop over Patterns that asks every match for group(2) raises IndexError
\* at the first match of a pattern without a second group
Group2Fails(text) ==
    \E n \in 1..Len(Patterns) :
        GroupCount(Patterns[n]) < 2 /\ finditer(Patterns[n], text) # <<>>

\* the names of the placeholders of a body, INTERPOLATION_PATTERN.finditer
Refs(body) == {body[i].ref : i \in {j \in 1..Len(body) : body[j].kind = "ref"}}

parse_imports(text) ==
    LET IsImport(st) == st.kind = "import" IN SelectSeq(text, IsImport)

max_depth == 10

RECURSIVE resolve_interpolations(_, _, _)
RECURSIVE replace_interpolations(_, _, _, _, _)

\* a substitution that drops the placeholders it cannot resolve
replace_dropping_unknown(graphql_content, fragment_map, depth, from, to) ==
    IF from > to THEN <<>>
    ELSE IF from = to
    THEN IF graphql_content[from].kind # "ref" THEN <<graphql_content[from]>>
         ELSE IF graphql_content[from].ref \in DictKeys(fragment_map)
         THEN resolve_interpolations(DictGet(fragment_map, graphql_content[from].ref),
                                     fragment_map, depth - 1)
         ELSE <<>>
    ELSE LET mid == (from + to) \div 2
         IN  replace_interpolations(graphql_content, fragment_map, depth, from, mid)
             \o replace_interpolations(graphql_content, fragment_map, depth,
                                       mid + 1, to)

\* INTERPOLATION_PATTERN.sub(replace_interpolation, graphql_content) over the
\* lines from..to: a placeholder whose name is in fragment_map is replaced by
\* the resolved fragment, any other line stays.  (The range is halved, not
\* walked, to keep the evaluation shallow.)
replace_interpolations(graphql_content, fragment_map, depth, from, to) ==
    IF from > to THEN <<>>
    ELSE IF from = to
    THEN IF /\ graphql_content[from].kind = "ref"
            /\ graphql_content[from].ref \in DictKeys(fragment_map)
         THEN resolve_interpolations(DictGet(fragment_map, graphql_content[from].ref),
                                     fragment_map, depth - 1)
         ELSE <<graphql_content[from]>>
    ELSE LET mid == (from + to) \div 2
         IN  replace_interpolations(graphql_content, fragment_map, depth, from, mid)
             \o replace_interpolations(graphql_content, fragment_map, depth,
                                       mid + 1, to)

\* a resolution that still substitutes when the depth counter has run out
resolve_interpolations_past_zero(graphql_content, fragment_map, depth) ==
    IF depth < 0 THEN graphql_content
    ELSE replace_interpolations(graphql_content, fragment_map, depth,
                                1, Len(graphql_content))

resolve_interpolations(graphql_content, fragment_map, depth) ==
    IF depth <= 0 THEN graphql_content
    ELSE replace_interpolations(graphql_content, fragment_map, depth,
                                1, Len(graphql_content))

RECURSIVE local_fragments(_, _, _, _)

\* a pass over the file that records none of its templates
local_fragments_none(fragment_map, pattern, matches, n) == fragment_map

\* "Extract fragments from current file": fragment_map[var_name] = content
local_fragments(fragment_map, pattern, matches, n) ==
    IF n = 0 THEN fragment_map
    ELSE LET m == local_fragments(fragment_map, pattern, matches, n - 1)
             var_name == group1(pattern, matches[n])
             graphql_content == group2(pattern, matches[n])
         IN  IF var_name # "" /\ graphql_content # <<>>
             THEN DictPut(m, var_name, graphql_content)
             ELSE m

\* resolved_map: every entry of fragment_map with its placeholders resolved
resolved_map(fragment_map) ==
    [i \in 1..Len(fragment_map) |->
        [key |-> fragment_map[i].key,
         value |-> resolve_interpolations(fragment_map[i].value, fragment_map,
                                          max_depth)]]

Missing == "missing"
Unreadable == "unreadable"
Readable == "readable"

RECURSIVE build_fragment_map(_, _, _, _)
RECURSIVE import_loop(_, _, _, _, _)

\* an import loop in which an import that yields no fragment (a cyclic one
\* among them) discards the fragments collected before it
import_loop_dropping_on_cycle(files, file_path, imports, n, branch_visited) ==
    IF n = 0 THEN Returns(<<>>)
    ELSE LET before == import_loop(files, file_path, imports, n - 1, branch_visited)
             resolved == files[imports[n].path]
         IN  IF before.exc # NoException THEN before
             ELSE IF resolved.state # Readable THEN before
             ELSE LET imported_fragments ==
                          build_fragment_map(files, imports[n].path, resolved.content,
                                             branch_visited)
                  IN  IF imported_fragments.exc # NoException
                      THEN imported_fragments
                      ELSE IF imports[n].name \in DictKeys(imported_fragments.value)
                      THEN Returns(DictPut(before.value, imports[n].name,
                                           DictGet(imported_fragments.value,
                                                   imports[n].name)))
                      ELSE Returns(<<>>)

\* the visited set after a call for path, were it one set that every call
\* adds its file to
RECURSIVE visited_after(_, _, _)
RECURSIVE visited_after_imports(_, _, _, _)
visited_after_imports(files, imports, n, visited) ==
    IF n = 0 THEN visited
    ELSE LET before == visited_after_imports(files, imports, n - 1, visited)
         IN  IF files[imports[n].path].state = Readable
             THEN visited_after(files, imports[n].path, before)
             ELSE before
visited_after(files, path, visited) ==
    IF path \in visited THEN visited
    ELSE LET imports == parse_imports(files[path].content)
         IN  visited_after_imports(files, imports, Len(imports), visited \cup {path})

\* an import loop whose calls share one visited set: the files that the
\* imports before this one have reached count as visited for it
import_loop_shared_visited(files, file_path, imports, n, branch_visited) ==
    IF n = 0 THEN Returns(<<>>)
    ELSE LET before == import_loop(files, file_path, imports, n - 1, branch_visited)
             imp == imports[n]
             resolved == files[imp.path]
         IN  IF before.exc # NoException THEN before
             ELSE IF resolved.state # Readable THEN before
             ELSE LET imported_fragments ==
                          build_fragment_map(
                              files, imp.path, resolved.content,
                              visited_after_imports(files, imports, n - 1,
                                                    branch_visited))
                  IN  IF imported_fragments.exc # NoException
                      THEN imported_fragments
                      ELSE IF imp.name \in DictKeys(imported_fragments.value)
                      THEN Returns(DictPut(before.value, imp.name,
                                           DictGet(imported_fragments.value, imp.name)))
                      ELSE before

\* the "for imp in imports" loop over the first n imports
import_loop(files, file_path, imports, n, branch_visited) ==
    IF n = 0 THEN Returns(<<>>)
    ELSE LET before == import_loop(files, file_path, imports, n - 1, branch_visited)
             imp == imports[n]
             resolved == files[imp.path]
         IN  IF before.exc # NoException THEN before
             ELSE IF resolved.state = Missing THEN before
             ELSE IF resolved.state = Unreadable THEN before
             ELSE LET imported_fragments ==
                          build_fragment_map(files, imp.path, resolved.content,
                                             branch_visited)
                  IN  IF imported_fragments.exc # NoException
                      THEN imported_fragments
                      ELSE IF imp.name \in DictKeys(imported_fragments.value)
                      THEN Returns(DictPut(before.value, imp.name,
                                           DictGet(imported_fragments.value, imp.name)))
                      ELSE before

build_fragment_map(files, file_path, text, visited) ==
    IF file_path \in visited THEN Returns(<<>>)
    ELSE LET branch_visited == visited \cup {file_path}
             imports == parse_imports(text)
             imported == import_loop(files, file_path, imports, Len(imports),
                                     branch_visited)
         IN  IF imported.exc # NoException THEN imported
             ELSE IF Group2Fails(text) THEN Raises(IndexError)
             ELSE LET matches == finditer(GRAPHQL_TEMPLATE_PATTERN, text)
                      fragment_map ==
                          local_fragments(imported.value, GRAPHQL_TEMPLATE_PATTERN,
                                          matches, Len(matches))
                  IN  Returns(resolved_map(fragment_map))

\* a scan that finds no placeholder
_find_referenced_variables_nothing(text) == Returns({})

_find_referenced_variables(text) ==
    IF Group2Fails(text) THEN Raises(IndexError)
    ELSE LET matches == finditer(GRAPHQL_TEMPLATE_PATTERN, text)
         IN  Returns(UNION {Refs(group2(GRAPHQL_TEMPLATE_PATTERN, matches[i])) :
                               i \in 1..Len(matches)})

\* OPERATION_PATTERN.search(graphql_content): the pattern asks for white
\* space after the keyword
_contains_operation(graphql_content) ==
    \E i \in 1..Len(graphql_content) : graphql_content[i].kind = "op"

\* the lines a statement takes in the file
LinesOf(st) ==
    IF st.kind \in {"template", "gql"} THEN Len(st.body) + 2
    ELSE IF st.kind = "literal" /\ st.body # <<>> THEN Len(st.body)
    ELSE 1

\* content[:start_pos].count("\n") + 1 for the n-th statement
RECURSIVE line_number(_, _)
line_number(text, n) ==
    IF n = 1 THEN 1 ELSE line_number(text, n - 1) + LinesOf(text[n - 1])

\* "Pass 3" of extract() over the first n statements, for a file in which
\* every pattern that matches has two groups
RECURSIVE extract_loop(_, _, _, _, _)
extract_loop(file_path, text, referenced_vars, fragment_map, n) ==
    IF n = 0 THEN <<>>
    ELSE LET queries == extract_loop(file_path, text, referenced_vars,
                                     fragment_map, n - 1)
             match == text[n]
             var_name == group1(GRAPHQL_TEMPLATE_PATTERN, match)
             query_content == group2(GRAPHQL_TEMPLATE_PATTERN, match)
             resolved_content ==
                 IF fragment_map # <<>>
                 THEN resolve_interpolations(query_content, fragment_map, max_depth)
                 ELSE query_content
         IN  IF match.kind # GRAPHQL_TEMPLATE_PATTERN THEN queries
             ELSE IF var_name \in referenced_vars THEN queries
             ELSE IF ~_contains_operation(resolved_content) THEN queries
             ELSE IF resolved_content = <<>> THEN queries
             ELSE Append(queries,
                         ExtractedQuery(resolved_content, file_path,
                                        line_number(text, n) + 1, 1, var_name))

\* TypescriptExtractor.extract(file_path, content)
TypescriptExtract(files, file_path, text) ==
    LET referenced_vars == _find_referenced_variables(text)
        fragment_map == build_fragment_map(files, file_path, text, {})
    IN  IF referenced_vars.exc # NoException THEN referenced_vars
        ELSE IF fragment_map.exc # NoException THEN fragment_map
        ELSE IF Group2Fails(text) THEN Raises(IndexError)
        ELSE Returns(extract_loop(file_path, text, referenced_vars.value,
                                  fragment_map.value, Len(text)))

(***************************************************************************)
(* extractors/php.py                                                       *)
(*                                                                         *)
(* A file is a sequence of statements: a heredoc block opened by <<<QUERY, *)
(* <<<"QUERY" or <<<'QUERY', or one line of other code.  A line of a body  *)
(* is its leading whitespace and its text; a line without text is blank.   *)
(***************************************************************************)
Line(indent, text) == [indent |-> indent, text |-> text]
IsBlank(line) == line.text = <<>>

\* <<<[quote]QUERY[quote] <body> QUERY;
Heredoc(quote, body) ==
    [kind |-> "heredoc", quote |-> quote, delimiter |-> "QUERY", body |-> body]
Code == [kind |-> "code", quote |-> "", delimiter |-> "", body |-> <<>>]

HEREDOC_PATTERN == "HEREDOC_PATTERN"
NOWDOC_PATTERN == "NOWDOC_PATTERN"

\* the lines of the file that a statement takes, as text
OpeningLine(st) == Line(0, <<"$q = <<<", st.quote, st.delimiter, st.quote>>)
ClosingLine(st) == Line(0, <<st.delimiter, ";">>)
CodeLine == Line(0, <<"code">>)
php_lines(st) ==
    IF st.kind = "heredoc"
    THEN <<OpeningLine(st)>> \o st.body \o <<ClosingLine(st)>>
    ELSE <<CodeLine>>

\* the opening of HEREDOC_PATTERN takes an optional quote of either kind,
\* that of NOWDOC_PATTERN single quotes
php_opens(pattern, st) ==
    st.kind = "heredoc" /\ (pattern = NOWDOC_PATTERN => st.quote = "'")

\* the heredoc statement that follows statement n, 0 when there is none
php_next_heredoc(text, n) ==
    LET later == {m \in (n + 1)..Len(text) : text[m].kind = "heredoc"}
    IN  IF later = {} THEN 0 ELSE CHOOSE m \in later : \A k \in later : m <= k

\* pattern.finditer(content) from statement n on.  The "\s*\n" of the
\* opening takes the blank lines that follow it, and the content group ends
\* before the first later line that starts with the delimiter and ";".  So
\* the match of a block with a line of text is the block; a block without
\* one is matched from its own closing line, which starts the content group,
\* to the closing line of the next block, and not at all if none follows.
RECURSIVE php_scan(_, _, _)
php_scan(pattern, text, n) ==
    IF n > Len(text) THEN <<>>
    ELSE IF ~php_opens(pattern, text[n]) THEN php_scan(pattern, text, n + 1)
    ELSE IF \E k \in 1..Len(text[n].body) : ~IsBlank(text[n].body[k])
    THEN <<[from |-> n, to |-> n]>> \o php_scan(pattern, text, n + 1)
    ELSE LET m == php_next_heredoc(text, n)
         IN  IF m = 0 THEN php_scan(pattern, text, n + 1)
             ELSE <<[from |-> n, to |-> m]>> \o php_scan(pattern, text, m + 1)

php_finditer(pattern, text) == php_scan(pattern, text, 1)

\* the lines of statements from..to
RECURSIVE php_lines_between(_, _, _)
php_lines_between(text, from, to) ==
    IF from > to THEN <<>>
    ELSE php_lines(text[from]) \o php_lines_between(text, from + 1, to)

\* match.group(2)
php_group2(text, match) ==
    IF match.from = match.to
    THEN LET body == text[match.from].body
             first == CHOOSE k \in 1..Len(body) :
                          ~IsBlank(body[k]) /\ \A m \in 1..(k - 1) : IsBlank(body[m])
         IN  SubSeq(body, first, Len(body))
    ELSE <<ClosingLine(text[match.from])>>
             \o php_lines_between(text, match.from + 1, match.to - 1)
             \o <<OpeningLine(text[match.to])>> \o text[match.to].body

\* textwrap.dedent: blank lines are emptied, the margin common to the other
\* lines is removed
dedent(lines) ==
    LET inked == {n \in 1..Len(lines) : ~IsBlank(lines[n])}
        margin == IF inked = {} THEN 0
                  ELSE CHOOSE m \in {lines[n].indent : n \in inked} :
                           \A n \in inked : m <= lines[n].indent
    IN  [n \in 1..Len(lines) |->
            IF IsBlank(lines[n]) THEN Line(0, <<>>)
            ELSE Line(lines[n].indent - margin, lines[n].text)]

\* .replace("\\$", "$")
unescape(lines) ==
    [n \in 1..Len(lines) |->
        Line(lines[n].indent,
             [k \in 1..Len(lines[n].text) |->
                 IF lines[n].text[k] = "\\$" THEN "$" ELSE lines[n].text[k]])]

\* str.strip() of the joined lines: the blank lines at both ends and the
\* whitespace before the first text go
strip(lines) ==
    LET inked == {n \in 1..Len(lines) : ~IsBlank(lines[n])}
    IN  IF inked = {} THEN <<>>
        ELSE LET first == CHOOSE n \in inked : \A k \in inked : n <= k
                 last == CHOOSE n \in inked : \A k \in inked : k <= n
                 kept == SubSeq(lines, first, last)
             IN  [kept EXCEPT ![1] = Line(0, kept[1].text)]

php_LinesOf(st) == IF st.kind = "heredoc" THEN Len(st.body) + 2 ELSE 1

RECURSIVE php_line_number(_, _)
php_line_number(text, n) ==
    IF n = 1 THEN 1 ELSE php_line_number(text, n - 1) + php_LinesOf(text[n - 1])

\* the "for match in pattern.finditer(content)" loop over the first n
\* matches
RECURSIVE php_loop(_, _, _, _)
php_loop(file_path, text, matches, n) ==
    IF n = 0 THEN <<>>
    ELSE LET queries == php_loop(file_path, text, matches, n - 1)
             match == matches[n]
             query_content == php_group2(text, match)
             dedented_content == strip(unescape(dedent(query_content)))
         IN  IF dedented_content = <<>> THEN queries
             ELSE Append(queries,
                         ExtractedQuery(dedented_content, file_path,
                                        php_line_number(text, match.from) + 1, 1,
                                        text[match.from].delimiter))

\* PHPExtractor.extract(file_path, content)
PHPExtract(file_path, text) ==
    LET heredocs == php_finditer(HEREDOC_PATTERN, text)
        nowdocs == php_finditer(NOWDOC_PATTERN, text)
    IN  Returns(php_loop(file_path, text, heredocs, Len(heredocs))
                \o php_loop(file_path, text, nowdocs, Len(nowdocs)))

(***************************************************************************)
(* extractors/graphql.py: the file is a sequence of lines                  *)
(***************************************************************************)
\* GraphQLExtractor.extract(file_path, content)
GraphQLExtract(file_path, text) ==
    IF strip(text) = <<>> THEN Returns(<<>>)
    ELSE Returns(<<ExtractedQuery(text, file_path, 1, 1, file_path.stem)>>)

(***************************************************************************)
(* analyzer.py                                                             *)
(*                                                                         *)
(* graphql-core is outside the program.  Its answers for a query are       *)
(* inputs: the GraphQLSyntaxError that parse raises (None when it returns  *)
(* a document), the errors that validate returns for the document, and the *)
(* deprecated nodes that the visitor meets, in the order of the traversal. *)
(* A location is 1-based and relative to the text of the query; an error   *)
(* has a list of locations, a node a loc or None.                          *)
(***************************************************************************)
SourceLocation(line, column) == [line |-> line, column |-> column]
GraphQLError(message, locations) == [message |-> message, locations |-> locations]
\* a node of the document whose definition has a deprecation_reason
DeprecatedNode(issue_type, name, reason, loc) ==
    [issue_type |-> issue_type, name |-> name, reason |-> reason, loc |-> loc]
Answers(parse_error, validation_errors, deprecated) ==
    [parse_error |-> parse_error, validation_errors |-> validation_errors,
     deprecated |-> deprecated]

QueryAnalysisResult(query, issues, is_valid) ==
    [query |-> query, issues |-> issues, is_valid |-> is_valid]

\* ExtractedQuery.get_absolute_line(relative_line)
get_absolute_line(query, relative_line) == query.start_line + relative_line - 1

\* a column mapping that adds the offset of the query on every line
abs_col_offset_on_every_line(query, line, column) == query.start_col + column - 1

\* abs_col = column if line > 1 else query.start_col + column - 1
abs_col(query, line, column) ==
    IF line > 1 THEN column ELSE query.start_col + column - 1

\* the "if locations: ... else: ..." of the two error sites
error_position(query, locations) ==
    IF locations # <<>>
    THEN LET loc == locations[1]
         IN  [line |-> get_absolute_line(query, loc.line),
              column |-> abs_col(query, loc.line, loc.column)]
    ELSE [line |-> query.start_line, column |-> query.start_col]

_create_syntax_error_issue(query, error) ==
    LET at == error_position(query, error.locations)
    IN  Issue(SYNTAX_ERROR, ERROR, error.message, at.line, at.column, <<>>, NoStr)

\* Faulty variant of _create_validation_error_issue: a warning.
_create_validation_error_issue_as_warning(query, error) ==
    LET at == error_position(query, error.locations)
    IN  Issue(VALIDATION_ERROR, WARNING, error.message, at.line, at.column, <<>>, NoStr)

_create_validation_error_issue(query, error) ==
    LET at == error_position(query, error.locations)
    IN  Issue(VALIDATION_ERROR, ERROR, error.message, at.line, at.column, <<>>, NoStr)

\* QueryAnalysisResult.has_errors
has_errors(res) ==
    \E n \in 1..Len(res.issues) : res.issues[n].severity = ERROR

\* DeprecationVisitor._add_deprecation_issue(node, issue_type, name, reason)
_add_deprecation_issue(query, node) ==
    LET at == IF node.loc # None
              THEN [line |-> get_absolute_line(query, node.loc.line),
                    column |-> abs_col(query, node.loc.line, node.loc.column)]
              ELSE [line |-> query.start_line, column |-> query.start_col]
    IN  Issue(node.issue_type, WARNING, node.name \o <<" is deprecated">>,
              at.line, at.column, node.name, Some(node.reason))

(***************************************************************************)
(* DeprecationVisitor, as visit(ast, TypeInfoVisitor(type_info, visitor))  *)
(* drives it.  The document is the sequence of its fields in document      *)
(* order, each with its nesting depth.  For a field, "defined" says that   *)
(* the type its parent has in the schema, when that is known, has a field  *)
(* of this name; "deprecated" that the definition of the field has a       *)
(* deprecation_reason; "arguments" are the arguments of the field, in the  *)
(* document, whose definitions have one.                                   *)
(***************************************************************************)
FieldNode(name, type, depth, defined, deprecated, arguments) ==
    [name |-> name, type |-> type, depth |-> depth, defined |-> defined,
     deprecated |-> deprecated, arguments |-> arguments]

\* the field that encloses field n, 0 for a field of the operation
enclosing(document, n) ==
    LET outer == {m \in 1..(n - 1) : document[m].depth < document[n].depth}
    IN  IF outer = {} THEN 0 ELSE CHOOSE m \in outer : \A k \in outer : k <= m

\* type_info.get_field_def() and type_info.get_parent_type(), both set: the
\* parent type is that of the operation or of a field that is resolved, and
\* it has the field
RECURSIVE resolved(_, _)
resolved(document, n) ==
    /\ document[n].defined
    /\ enclosing(document, n) # 0 => resolved(document, enclosing(document, n))

\* parent_type.name
parent_type_name(document, n) ==
    IF enclosing(document, n) = 0 THEN "QueryRoot"
    ELSE document[enclosing(document, n)].type

\* the enter and leave events of visit(), fields n.. being ahead and the
\* fields of "open" entered and not left
RECURSIVE visit(_, _, _)
visit(document, n, open) ==
    IF open # <<>> /\ (n > Len(document)
                       \/ document[open[Len(open)]].depth >= document[n].depth)
    THEN <<[kind |-> "leave", node |-> open[Len(open)]]>>
             \o visit(document, n, SubSeq(open, 1, Len(open) - 1))
    ELSE IF n > Len(document) THEN <<>>
    ELSE <<[kind |-> "enter", node |-> n]>>
             \o visit(document, n + 1, Append(open, n))

\* '.'.join(names)
RECURSIVE join(_)
join(names) ==
    IF names = <<>> THEN <<>>
    ELSE IF Len(names) = 1 THEN <<names[1]>>
    ELSE <<names[1], ".">> \o join(Tail(names))

\* node.loc of field n: every field is on a line of its own
loc_of(document, n) == SourceLocation(n + 1, 2 * document[n].depth + 1)

\* DeprecationVisitor._check_argument, for the arguments of a field in turn
_check_arguments(self, query, document, n) ==
    [self EXCEPT !.issues = @ \o
        [k \in 1..Len(document[n].arguments) |->
            _add_deprecation_issue(
                query,
                DeprecatedNode(DEPRECATED_ARGUMENT,
                               join(self._field_path)
                                   \o <<"($", document[n].arguments[k], ")">>,
                               <<"use another">>, loc_of(document, n)))]]

\* DeprecationVisitor.enter_field
enter_field(self, query, document, n) ==
    IF resolved(document, n)
    THEN LET pushed == [self EXCEPT !._field_path = Append(@, document[n].name)]
             checked ==
                 IF document[n].deprecated
                 THEN [pushed EXCEPT !.issues = Append(@,
                          _add_deprecation_issue(
                              query,
                              DeprecatedNode(DEPRECATED_FIELD,
                                             <<parent_type_name(document, n), ".",
                                               document[n].name>>,
                                             <<"use another">>,
                                             loc_of(document, n))))]
                 ELSE pushed
         IN  _check_arguments(checked, query, document, n)
    ELSE self

\* DeprecationVisitor.leave_field
leave_field(self) ==
    IF self._field_path # <<>>
    THEN [self EXCEPT !._field_path = SubSeq(@, 1, Len(@) - 1)]
    ELSE self

\* visitor.issues after visit(ast, ...)
_scan_deprecations(query, deprecated) ==
    [n \in 1..Len(deprecated) |-> _add_deprecation_issue(query, deprecated[n])]

\* an analysis that goes on to phases 2 and 3 after a syntax error
analyze_through_syntax_error(query, answers) ==
    LET first == IF answers.parse_error # None
                 THEN <<_create_syntax_error_issue(query, answers.parse_error)>>
                 ELSE <<>>
        errors == [n \in 1..Len(answers.validation_errors) |->
                      _create_validation_error_issue(query,
                                                     answers.validation_errors[n])]
    IN  QueryAnalysisResult(query,
                            first \o errors
                                \o _scan_deprecations(query, answers.deprecated),
                            first = <<>> /\ errors = <<>>)

\* an analysis that scans for deprecations only when validation found nothing
analyze_scan_if_valid(query, answers) ==
    IF answers.parse_error # None
    THEN QueryAnalysisResult(
             query, <<_create_syntax_error_issue(query, answers.parse_error)>>, FALSE)
    ELSE LET errors == [n \in 1..Len(answers.validation_errors) |->
                           _create_validation_error_issue(query,
                                                          answers.validation_errors[n])]
         IN  QueryAnalysisResult(query,
                                 IF errors = <<>>
                                 THEN _scan_deprecations(query, answers.deprecated)
                                 ELSE errors,
                                 errors = <<>>)

\* QueryAnalyzer.analyze(query)
analyze(query, answers) ==
    IF answers.parse_error # None
    THEN QueryAnalysisResult(
             query, <<_create_syntax_error_issue(query, answers.parse_error)>>, FALSE)
    ELSE LET errors == [n \in 1..Len(answers.validation_errors) |->
                           _create_validation_error_issue(query,
                                                          answers.validation_errors[n])]
         IN  QueryAnalysisResult(query,
                                 errors \o _scan_deprecations(query, answers.deprecated),
                                 errors = <<>>)

\* QueryAnalyzer.analyze_many(queries)
analyze_many(queries, answers) ==
    [n \in 1..Len(queries) |-> analyze(queries[n], answers[n])]

(***************************************************************************)
(* Inputs of extract()                                                     *)
(***************************************************************************)
RootTs == Path(<<"a">>, ".ts")
LibTs == Path(<<"b">>, ".ts")
MidTs == Path(<<"c">>, ".ts")
LeafTs == Path(<<"d">>, ".ts")
RootPhp == Path(<<"a">>, ".php")
RootGraphql == Path(<<"a">>, ".graphql")

File(state, text) == [state |-> state, content |-> text]

\* Bodies of up to MaxBody lines with at most one placeholder: a body that
\* names itself twice is copied 2^max_depth times by resolve_interpolations.
PlainBodies == SeqsUpTo({OpLine, TextLine, BlankLine}, MaxBody)
Bodies ==
    PlainBodies
    \cup {around[1] \o <<Placeholder(name)>> \o around[2] :
             name \in {"A", "B"},
             around \in {pp \in PlainBodies \X PlainBodies :
                             Len(pp[1]) + Len(pp[2]) < MaxBody}}

TsStatements ==
    {Import("A", "A", LibTs), Import("A", "B", LibTs), Import("A", "A", RootTs)}
    \cup {Template(name, body) : name \in {"A", "B"}, body \in Bodies}
    \cup {Template(name, <<TightOpLine>>) : name \in {"A", "B"}}
    \cup {Tagged("Q", body) : body \in {<<OpLine>>, <<Placeholder("A")>>}}
    \cup {Literal("A", <<TextLine>>)}
    \cup {Statement("code", "", "", NoPath, <<>>)}

TsFiles == SeqsUpTo(TsStatements, MaxBlocks)

\* what an import of the file under extraction can find
LibFiles ==
    { File(Missing, <<>>),
      File(Unreadable, <<>>),
      File(Readable, <<Template("A", <<TextLine>>)>>),
      File(Readable, <<Tagged("A", <<OpLine>>)>>),
      File(Readable, <<Import("B", "B", RootTs),
                       Template("A", <<Placeholder("B"), TextLine>>)>>) }

\* a.ts imports from b.ts and from c.ts, which both import from d.ts; d.ts
\* may import from a.ts or from b.ts in turn
DiamondRoot == <<Import("B", "B", LibTs), Import("C", "C", MidTs)>>
DiamondLeaves ==
    { File(Missing, <<>>),
      File(Readable, <<Template("D", <<TextLine>>)>>),
      File(Readable, <<Import("A", "A", RootTs), Template("D", <<TextLine>>)>>),
      File(Readable, <<Import("B", "B", LibTs),
                       Template("D", <<OpLine, Placeholder("B")>>)>>) }
DiamondFiles ==
    {[f \in {RootTs, LibTs, MidTs, LeafTs} |->
         IF f = RootTs THEN File(Readable, DiamondRoot)
         ELSE IF f = LibTs
         THEN File(Readable, <<Import("D", "D", LeafTs),
                               Template("B", <<TextLine, Placeholder("D")>>)>>)
         ELSE IF f = MidTs THEN mid
         ELSE leaf] :
        mid \in {File(Unreadable, <<>>),
                 File(Readable, <<Import("D", "D", LeafTs),
                                  Template("C", <<Placeholder("D"), TextLine>>)>>)},
        leaf \in DiamondLeaves}

\* a file of max_depth + 2 blocks, each holding the placeholder of the
\* next, the last one a placeholder that no block answers
ChainNames ==
    <<"F1", "F2", "F3", "F4", "F5", "F6", "F7", "F8", "F9", "F10", "F11", "F12">>
ChainFile ==
    [k \in 1..(max_depth + 2) |->
        Template(ChainNames[k],
                 <<IF k = 1 THEN OpLine ELSE TextLine,
                   Placeholder(IF k < max_depth + 2 THEN ChainNames[k + 1] ELSE "Z")>>)]

PhpLines ==
    {Line(0, <<>>), Line(0, <<"query">>), Line(1, <<"query">>),
     Line(1, <<"\\$", "id">>)}

PhpStatements ==
    {Code} \cup {Heredoc(quote, body) : quote \in {"", "'", "\""},
                                         body \in SeqsUpTo(PhpLines, MaxBody)}

PhpFiles == SeqsUpTo(PhpStatements, MaxBlocks)

GraphqlFiles == SeqsUpTo({Line(0, <<>>), Line(0, <<"query">>), Line(1, <<"shop">>)},
                         MaxBody + 1)

NoOutcome == Returns(<<>>)

\* the values of the state of the parts that a specification leaves alone
NoCli == target_library = <<>> /\ exit_code = None
NoScan == ast = <<>> /\ visitor = None
NoCollect == routed_path = None /\ _extractors = <<>>

(***************************************************************************)
(* Inputs of diff(): analysis results as QueryAnalyzer.analyze builds them *)
(***************************************************************************)
\* ExtractedQuery(source_file, start_line, content)
Query(file, line, text) ==
    [source_file |-> file, start_line |-> line, content |-> text]

Queries ==
    { Query(RootPhp, 2, <<"{", "shop", "}">>),
      Query(RootPhp, 7, <<"{", "shop", "}">>) }

\* validation errors and the syntax error: severity error, no field_path
ValidationIssues ==
    { Issue(VALIDATION_ERROR, ERROR, <<"unknown", "a">>, 2, 3, <<>>, NoStr),
      Issue(VALIDATION_ERROR, ERROR, <<"unknown", "a">>, 4, 5, <<>>, NoStr),
      Issue(VALIDATION_ERROR, ERROR, <<"unknown", "b">>, 3, 3, <<>>, NoStr) }

SyntaxIssues ==
    { Issue(SYNTAX_ERROR, ERROR, <<"Syntax Error", ":", "Expected Name">>,
            2, 1, <<>>, NoStr) }

\* deprecations: severity warning, message f"{name} is deprecated"
Deprecation(t, name, line, col, reason) ==
    Issue(t, WARNING, name \o <<" is deprecated">>, line, col, name, Some(reason))

DeprecationIssues ==
    { Deprecation(DEPRECATED_FIELD, <<"Shop", ".", "a">>, 2, 3, <<"use b">>),
      Deprecation(DEPRECATED_FIELD, <<"Shop", ".", "a">>, 4, 5, <<"use c">>),
      Deprecation(DEPRECATED_ARGUMENT, <<"shop", ".", "a", "($", "x", ")">>,
                  2, 9, <<"use y">>),
      Deprecation(DEPRECATED_ENUM_VALUE, <<"Unit", ".", "OLD">>, 3, 7, <<"gone">>) }

\* issue lists of at most n issues that analyze() can return: a single
\* syntax error, or validation errors followed by deprecations
IssueLists(n) ==
    {<<s>> : s \in {x \in SyntaxIssues : n >= 1}}
    \cup UNION {{v \o d : v \in SeqsOfLen(ValidationIssues, k),
                          d \in SeqsUpTo(DeprecationIssues, n - k)} : k \in 0..n}

\* n issue lists holding at most budget issues in total
RECURSIVE Assign(_, _)
Assign(n, budget) ==
    IF n = 0 THEN {<<>>}
    ELSE UNION {{<<l>> \o rest : rest \in Assign(n - 1, budget - Len(l))} :
                    l \in IssueLists(budget)}

Results(queries, issues, from) ==
    [i \in 1..Len(queries) |-> [query |-> queries[i], issues |-> issues[from + i]]]

(***************************************************************************)
(* Specification of diff()                                                 *)
(***************************************************************************)
\* lists of up to MaxResults results with up to MaxTotalIssues issues
ManyQueries ==
    \E cq \in SeqsUpTo(Queries, MaxResults), tq \in SeqsUpTo(Queries, MaxResults) :
        \E a \in Assign(Len(cq) + Len(tq), MaxTotalIssues) :
            /\ current_results = Results(cq, a, 0)
            /\ target_results = Results(tq, a, Len(cq))

\* the two results of one query, with up to MaxPairIssues issues
OneQuery ==
    \E q \in Queries, a \in Assign(2, MaxPairIssues) :
        /\ current_results = Results(<<q>>, a, 0)
        /\ target_results = Results(<<q>>, a, 1)

InitDiff ==
    /\ pc = "start"
    /\ result = DiffResult
    /\ categorized = <<>>
    /\ (ManyQueries \/ OneQuery)
    /\ extractor = ""
    /\ content = <<>>
    /\ fs = <<>>
    /\ outcome = NoOutcome
    /\ library = <<>>
    /\ NoCli
    /\ NoScan
    /\ NoCollect

\* VersionDiffer.diff(current_results, target_results)
Diff ==
    /\ pc = "start"
    /\ LET r == diff(current_results, target_results)
       IN  /\ result' = [items |-> r.items, summary |-> r.summary]
           /\ categorized' = r.categorized
    /\ pc' = "done"
    /\ UNCHANGED <<current_results, target_results>>
    /\ UNCHANGED extractVars
    /\ UNCHANGED analysisVars
    /\ UNCHANGED cliVars
    /\ UNCHANGED scanVars
    /\ UNCHANGED collectVars

NextDiff == Diff

SpecDiff == InitDiff /\ [][NextDiff]_vars

(***************************************************************************)
(* diff() on queries and issues whose fields hold the ':' of the keys      *)
(***************************************************************************)
\* a file "a.php:1:b.php" next to a file "a.php" whose block starts with the
\* text "b.php:2:x"
ColonPhp == Path(<<"a", ".php", ":", "1", ":", "b">>, ".php")

KeyQueries ==
    Queries \cup { Query(ColonPhp, 2, <<"x">>),
                   Query(RootPhp, 1, <<"b", ".php", ":", "2", ":", "x">>) }

\* Issue values whose field_path or message holds a ':', and a field_path
\* "None" next to no field_path
KeyIssues ==
    { Issue(VALIDATION_ERROR, ERROR, <<"b", ":", "c">>, 2, 3, <<"a">>, NoStr),
      Issue(VALIDATION_ERROR, ERROR, <<"c">>, 2, 3, <<"a", ":", "b">>, NoStr),
      Issue(VALIDATION_ERROR, ERROR, <<"unknown", "a">>, 2, 3, <<"None">>, NoStr) }
    \cup {i \in ValidationIssues : i.line = 2}

\* one current and one target result, each with at most one issue
InitKeys ==
    /\ pc = "start"
    /\ result = DiffResult
    /\ categorized = <<>>
    /\ \E cq \in KeyQueries, tq \in KeyQueries :
           \E ci \in SeqsUpTo(KeyIssues, 1), ti \in SeqsUpTo(KeyIssues, 1) :
               /\ current_results = <<[query |-> cq, issues |-> ci]>>
               /\ target_results = <<[query |-> tq, issues |-> ti]>>
    /\ extractor = ""
    /\ content = <<>>
    /\ fs = <<>>
    /\ outcome = NoOutcome
    /\ library = <<>>
    /\ NoCli
    /\ NoScan
    /\ NoCollect

SpecKeys == InitKeys /\ [][NextDiff]_vars

(***************************************************************************)
(* Specification of extract()                                              *)
(***************************************************************************)
InitExtract ==
    /\ pc = "start"
    /\ outcome = NoOutcome
    /\ library = <<>>
    /\ NoCli
    /\ NoScan
    /\ NoCollect
    /\ current_results = <<>>
    /\ target_results = <<>>
    /\ result = DiffResult
    /\ categorized = <<>>
    /\ \/ /\ extractor = "typescript"
          /\ content \in TsFiles
          /\ \E lib \in LibFiles :
                fs = [f \in {RootTs, LibTs} |->
                         IF f = RootTs THEN File(Readable, content) ELSE lib]
       \/ /\ extractor = "typescript"
          /\ content = DiamondRoot
          /\ fs \in DiamondFiles
       \/ /\ extractor = "typescript"
          /\ content = ChainFile
          /\ fs = [f \in {RootTs, LibTs} |->
                       IF f = RootTs THEN File(Readable, content)
                       ELSE File(Missing, <<>>)]
       \/ /\ extractor = "php"
          /\ content \in PhpFiles
          /\ fs = <<>>
       \/ /\ extractor = "graphql"
          /\ content \in GraphqlFiles
          /\ fs = <<>>

\* TypescriptExtractor().extract(file_path, content)
ExtractTypescript ==
    /\ pc = "start"
    /\ extractor = "typescript"
    /\ outcome' = TypescriptExtract(fs, RootTs, content)
    /\ pc' = "done"
    /\ UNCHANGED <<extractor, content, fs>>
    /\ UNCHANGED diffVars
    /\ UNCHANGED analysisVars
    /\ UNCHANGED cliVars
    /\ UNCHANGED scanVars
    /\ UNCHANGED collectVars

\* PHPExtractor().extract(file_path, content)
ExtractPHP ==
    /\ pc = "start"
    /\ extractor = "php"
    /\ outcome' = PHPExtract(RootPhp, content)
    /\ pc' = "done"
    /\ UNCHANGED <<extractor, content, fs>>
    /\ UNCHANGED diffVars
    /\ UNCHANGED analysisVars
    /\ UNCHANGED cliVars
    /\ UNCHANGED scanVars
    /\ UNCHANGED collectVars

\* GraphQLExtractor().extract(file_path, content)
ExtractGraphQL ==
    /\ pc = "start"
    /\ extractor = "graphql"
    /\ outcome' = GraphQLExtract(RootGraphql, content)
    /\ pc' = "done"
    /\ UNCHANGED <<extractor, content, fs>>
    /\ UNCHANGED diffVars
    /\ UNCHANGED analysisVars
    /\ UNCHANGED cliVars
    /\ UNCHANGED scanVars
    /\ UNCHANGED collectVars

\* TypescriptExtractor().build_fragment_map(file_path, content)
BuildFragmentMap ==
    /\ pc = "start"
    /\ extractor = "typescript"
    /\ outcome' = build_fragment_map(fs, RootTs, content, {})
    /\ pc' = "mapped"
    /\ UNCHANGED <<extractor, content, fs>>
    /\ UNCHANGED diffVars
    /\ UNCHANGED analysisVars
    /\ UNCHANGED cliVars
    /\ UNCHANGED scanVars
    /\ UNCHANGED collectVars

\* TypescriptExtractor().resolve_interpolations(graphql_content, fragment_map)
\* for the body of a `#graphql` template of the file and the map of the
\* file's templates, unresolved
ResolveInterpolations ==
    /\ pc = "start"
    /\ extractor = "typescript"
    /\ LET matches == finditer(GRAPHQL_TEMPLATE_PATTERN, content)
           fragment_map == local_fragments(<<>>, GRAPHQL_TEMPLATE_PATTERN,
                                           matches, Len(matches))
       IN  \E n \in 1..Len(matches) :
               LET graphql_content == group2(GRAPHQL_TEMPLATE_PATTERN, matches[n])
               IN  outcome' = Returns([graphql_content |-> graphql_content,
                                       fragment_map |-> fragment_map,
                                       resolved |-> resolve_interpolations(
                                           graphql_content, fragment_map,
                                           max_depth)])
    /\ pc' = "resolved"
    /\ UNCHANGED <<extractor, content, fs>>
    /\ UNCHANGED diffVars
    /\ UNCHANGED analysisVars
    /\ UNCHANGED cliVars
    /\ UNCHANGED scanVars
    /\ UNCHANGED collectVars

NextExtract ==
    \/ ExtractTypescript
    \/ ExtractPHP
    \/ ExtractGraphQL
    \/ BuildFragmentMap
    \/ ResolveInterpolations

SpecExtract == InitExtract /\ [][NextExtract]_vars

(***************************************************************************)
(* Specification of analyze_many(), over the queries of a PHP file and     *)
(* over queries that the caller has built                                  *)
(***************************************************************************)
\* ExtractedQuery(content, source_file, start_line, start_col) as a caller
\* builds them, anywhere in a file
BuiltQueries ==
    {ExtractedQuery(<<Line(0, <<"query">>), Line(1, <<"shop", "a">>)>>,
                    RootGraphql, line, col, "") :
        line \in {1, 4},
        col \in {1, 3}}

\* the locations that can be reported for a query: none, its first token,
\* or the last token of its last line
Locations(query) ==
    LET last == query.content[Len(query.content)]
    IN  { <<>>,
          <<SourceLocation(1, query.content[1].indent + 1)>>,
          <<SourceLocation(Len(query.content), last.indent + Len(last.text))>> }

SyntaxErrors(query) ==
    {GraphQLError(<<"Syntax Error", ":", "Expected Name">>, l) : l \in Locations(query)}
ValidationErrors(query) ==
    {GraphQLError(<<"unknown", "a">>, l) : l \in Locations(query)}
DeprecatedNodes(query) ==
    {DeprecatedNode(DEPRECATED_FIELD, <<"Shop", ".", "a">>, <<"use b">>,
                    IF l = <<>> THEN None ELSE l[1]) : l \in Locations(query)}

\* the answers for a query that hold n reports at most.  With a syntax error
\* there is no document; what validate and the visitor would have answered
\* for the rest of the text is kept, to see that it is not used.
AnswersFor(query, n) ==
    {Answers(e, <<GraphQLError(<<"unknown", "a">>, <<>>)>>,
             <<DeprecatedNode(DEPRECATED_FIELD, <<"Shop", ".", "a">>, <<"use b">>,
                              None)>>) :
        e \in {x \in SyntaxErrors(query) : n >= 1}}
    \cup UNION {{Answers(None, v, d) :
                    v \in SeqsOfLen(ValidationErrors(query), k),
                    d \in SeqsUpTo(DeprecatedNodes(query), n - k)} : k \in 0..n}

ReportsIn(answers) ==
    IF answers.parse_error # None THEN 1
    ELSE Len(answers.validation_errors) + Len(answers.deprecated)

\* the answers for queries[from..], MaxReports reports at most in all
RECURSIVE AnswersForAll(_, _, _)
AnswersForAll(queries, from, budget) ==
    IF from > Len(queries) THEN {<<>>}
    ELSE UNION {{<<a>> \o rest :
                    rest \in AnswersForAll(queries, from + 1, budget - ReportsIn(a))} :
                    a \in AnswersFor(queries[from], budget)}

\* a PHP file of one statement, or queries built by the caller
InitAnalyze ==
    /\ \/ /\ pc = "start"
          /\ extractor = "php"
          /\ content \in {<<statement>> : statement \in PhpStatements}
          /\ outcome = NoOutcome
       \/ /\ pc = "done"
          /\ extractor = ""
          /\ content = <<>>
          /\ outcome \in {Returns(queries) :
                              queries \in SeqsUpTo(BuiltQueries, MaxResults)}
    /\ fs = <<>>
    /\ library = <<>>
    /\ NoCli
    /\ NoScan
    /\ NoCollect
    /\ current_results = <<>>
    /\ target_results = <<>>
    /\ result = DiffResult
    /\ categorized = <<>>

\* QueryAnalyzer.analyze_many(queries), queries being those of the file
AnalyzeMany ==
    /\ pc = "done"
    /\ outcome.exc = NoException
    /\ \E answers \in AnswersForAll(outcome.value, 1, MaxReports) :
           /\ library' = answers
           /\ current_results' = analyze_many(outcome.value, answers)
    /\ pc' = "analyzed"
    /\ UNCHANGED <<target_results, result, categorized>>
    /\ UNCHANGED extractVars
    /\ UNCHANGED cliVars
    /\ UNCHANGED scanVars
    /\ UNCHANGED collectVars

NextAnalyze == ExtractPHP \/ AnalyzeMany

SpecAnalyze == InitAnalyze /\ [][NextAnalyze]_vars

(***************************************************************************)
(* query_collector.py                                                      *)
(***************************************************************************)
\* str.lower() of a suffix
lower(suffix) ==
    CASE suffix = ".PHP" -> ".php"
      [] suffix = ".GraphQL" -> ".graphql"
      [] suffix = ".TS" -> ".ts"
      [] OTHER -> suffix

\* the extensions attribute of the extractors of the package
extensions(name) ==
    CASE name = "graphql" -> <<".graphql", ".gql">>
      [] name = "php" -> <<".php">>
      [] name = "typescript" -> <<".ts", ".tsx">>

\* for ext in extractor.extensions: self._extractors[ext.lower()] = extractor,
\* over the first n extensions
RECURSIVE register_loop(_, _, _)
register_loop(registry, name, n) ==
    IF n = 0 THEN registry
    ELSE DictPut(register_loop(registry, name, n - 1),
                 lower(extensions(name)[n]), name)

register_extractor(registry, name) ==
    register_loop(registry, name, Len(extensions(name)))

\* QueryCollector(): the registry after _register_default_extractors
_register_default_extractors ==
    register_extractor(register_extractor(<<>>, "graphql"), "php")

\* self._extractors.get(file_path.suffix.lower()); None is the empty sequence
get_extractor(registry, file_path) ==
    IF lower(file_path.suffix) \in DictKeys(registry)
    THEN Some(DictGet(registry, lower(file_path.suffix)))
    ELSE NoStr

\* extractor.extract(file_path, content)
extract(name, files, file_path, text) ==
    CASE name = "graphql" -> GraphQLExtract(file_path, text)
      [] name = "php" -> PHPExtract(file_path, text)
      [] name = "typescript" -> TypescriptExtract(files, file_path, text)

\* _process_file(file_path) without an extension filter: a file that cannot
\* be read or decoded gives no queries
_process_file(registry, files, file_path) ==
    LET found == get_extractor(registry, file_path)
    IN  IF found = NoStr THEN Returns(<<>>)
        ELSE IF files[file_path].state # Readable THEN Returns(<<>>)
        ELSE extract(found[1], files, file_path, files[file_path].content)

(***************************************************************************)
(* Specification of the registry of QueryCollector                         *)
(***************************************************************************)
Suffixes ==
    {".graphql", ".gql", ".php", ".ts", ".tsx", ".PHP", ".GraphQL", ".TS",
     ".txt", ""}

\* what a file with a suffix holds
ContentsOf(suffix) ==
    IF lower(suffix) \in {".ts", ".tsx"} THEN SeqsUpTo(TsStatements, 1)
    ELSE IF lower(suffix) = ".php" THEN {<<statement>> : statement \in PhpStatements}
    ELSE {<<Line(0, <<"query">>), Line(1, <<"shop">>)>>, <<>>}

InitCollect ==
    /\ pc = "constructed"
    /\ _extractors = _register_default_extractors
    /\ \E suffix \in Suffixes :
           /\ routed_path = Path(<<"a">>, suffix)
           /\ content \in ContentsOf(suffix)
    /\ \E state \in {Readable, Unreadable} :
           fs = [f \in {routed_path, RootTs, LibTs} |->
                    IF f = routed_path THEN File(state, content)
                    ELSE File(Missing, <<>>)]
    /\ extractor = NoStr
    /\ outcome = NoOutcome
    /\ library = <<>>
    /\ NoCli
    /\ NoScan
    /\ current_results = <<>>
    /\ target_results = <<>>
    /\ result = DiffResult
    /\ categorized = <<>>

\* collector.register_extractor(TypescriptExtractor())
RegisterExtractor ==
    /\ pc = "constructed"
    /\ ".ts" \notin DictKeys(_extractors)
    /\ _extractors' = register_extractor(_extractors, "typescript")
    /\ UNCHANGED <<pc, routed_path>>
    /\ UNCHANGED extractVars
    /\ UNCHANGED diffVars
    /\ UNCHANGED analysisVars
    /\ UNCHANGED cliVars
    /\ UNCHANGED scanVars

\* collector.get_extractor(file_path)
GetExtractor ==
    /\ pc = "constructed"
    /\ extractor' = get_extractor(_extractors, routed_path)
    /\ pc' = "routed"
    /\ UNCHANGED <<content, fs, outcome>>
    /\ UNCHANGED collectVars
    /\ UNCHANGED diffVars
    /\ UNCHANGED analysisVars
    /\ UNCHANGED cliVars
    /\ UNCHANGED scanVars

\* collector.collect([file_path]), file_path being a file
ProcessFile ==
    /\ pc = "constructed"
    /\ outcome' = _process_file(_extractors, fs, routed_path)
    /\ pc' = "done"
    /\ UNCHANGED <<extractor, content, fs>>
    /\ UNCHANGED collectVars
    /\ UNCHANGED diffVars
    /\ UNCHANGED analysisVars
    /\ UNCHANGED cliVars
    /\ UNCHANGED scanVars

NextCollect ==
    \/ RegisterExtractor
    \/ GetExtractor
    \/ ProcessFile

SpecCollect == InitCollect /\ [][NextCollect]_vars

(***************************************************************************)
(* Specification of the analyze command of the cli: the queries of one     *)
(* collection are analyzed against the current and against the target      *)
(* schema, the two runs are compared, and the exit code is derived         *)
(***************************************************************************)
\* the reports of a batch of answers
RECURSIVE ReportsInAll(_, _)
ReportsInAll(answers, n) ==
    IF n = 0 THEN 0 ELSE ReportsInAll(answers, n - 1) + ReportsIn(answers[n])

\* target_results = target_analyzer.analyze_many(queries); the two schemas
\* report MaxReports errors and deprecated nodes at most between them
AnalyzeTarget ==
    /\ pc = "analyzed"
    /\ \E answers \in AnswersForAll(outcome.value, 1,
                                     MaxReports - ReportsInAll(library, Len(library))) :
           /\ target_library' = answers
           /\ target_results' = analyze_many(outcome.value, answers)
    /\ pc' = "analyzed_target"
    /\ UNCHANGED <<current_results, result, categorized, exit_code>>
    /\ UNCHANGED extractVars
    /\ UNCHANGED analysisVars
    /\ UNCHANGED scanVars
    /\ UNCHANGED collectVars

\* diff_result = differ.diff(current_results, target_results)
DifferDiff ==
    /\ pc = "analyzed_target"
    /\ LET r == diff(current_results, target_results)
       IN  /\ result' = [items |-> r.items, summary |-> r.summary]
           /\ categorized' = r.categorized
    /\ pc' = "compared"
    /\ UNCHANGED <<current_results, target_results>>
    /\ UNCHANGED extractVars
    /\ UNCHANGED analysisVars
    /\ UNCHANGED cliVars
    /\ UNCHANGED scanVars
    /\ UNCHANGED collectVars

\* exit_code = get_exit_code(diff_result)
GetExitCode ==
    /\ pc = "compared"
    /\ exit_code' = get_exit_code(result)
    /\ pc' = "exited"
    /\ UNCHANGED target_library
    /\ UNCHANGED diffVars
    /\ UNCHANGED extractVars
    /\ UNCHANGED analysisVars
    /\ UNCHANGED scanVars
    /\ UNCHANGED collectVars

NextCli ==
    \/ ExtractPHP
    \/ AnalyzeMany
    \/ AnalyzeTarget
    \/ DifferDiff
    \/ GetExitCode

SpecCli == InitAnalyze /\ [][NextCli]_vars

(***************************************************************************)
(* Specification of the deprecation scan of one document                   *)
(***************************************************************************)
FieldNames == <<"shop", "products", "image", "url">>
FieldTypes == <<"Shop", "Product", "Image", "URL">>

\* the documents of n fields: the first is a field of the operation, each
\* other one is nested in the one before it, or follows it or a field that
\* encloses it
RECURSIVE DocumentsOf(_)
DocumentsOf(n) ==
    IF n = 0 THEN {<<>>}
    ELSE {Append(document,
                 FieldNode(FieldNames[n], FieldTypes[n], depth, defined, deprecated,
                           arguments)) :
             document \in DocumentsOf(n - 1),
             depth \in 1..n,
             defined \in BOOLEAN,
             deprecated \in BOOLEAN,
             arguments \in {<<>>, <<"first">>}}

Documents ==
    {document \in UNION {DocumentsOf(n) : n \in 1..MaxFields} :
        /\ document[1].depth = 1
        /\ \A n \in 2..Len(document) : document[n].depth <= document[n - 1].depth + 1}

\* the query that the document was parsed from
ScannedQuery ==
    ExtractedQuery(<<Line(0, <<"query">>), Line(1, <<"shop">>)>>, RootGraphql, 1, 1, "")

InitScan ==
    /\ pc = "visiting"
    /\ ast \in Documents
    /\ visitor = [_field_path |-> <<>>, issues |-> <<>>, at |-> 0]
    /\ extractor = ""
    /\ content = <<>>
    /\ fs = <<>>
    /\ outcome = Returns(<<ScannedQuery>>)
    /\ library = <<>>
    /\ current_results = <<>>
    /\ target_results = <<>>
    /\ result = DiffResult
    /\ categorized = <<>>
    /\ NoCli
    /\ NoCollect

\* the event that visit() hands to the visitor next
NextEvent == visit(ast, 1, <<>>)[visitor.at + 1]

\* visit() enters a field: DeprecationVisitor.enter_field(node)
EnterField ==
    /\ pc = "visiting"
    /\ visitor.at < 2 * Len(ast)
    /\ NextEvent.kind = "enter"
    /\ visitor' = [enter_field(visitor, outcome.value[1], ast, NextEvent.node)
                      EXCEPT !.at = @ + 1]
    /\ UNCHANGED <<pc, ast>>
    /\ UNCHANGED diffVars
    /\ UNCHANGED extractVars
    /\ UNCHANGED analysisVars
    /\ UNCHANGED cliVars
    /\ UNCHANGED collectVars

\* visit() leaves a field: DeprecationVisitor.leave_field(node)
LeaveField ==
    /\ pc = "visiting"
    /\ visitor.at < 2 * Len(ast)
    /\ NextEvent.kind = "leave"
    /\ visitor' = [leave_field(visitor) EXCEPT !.at = @ + 1]
    /\ UNCHANGED <<pc, ast>>
    /\ UNCHANGED diffVars
    /\ UNCHANGED extractVars
    /\ UNCHANGED analysisVars
    /\ UNCHANGED cliVars
    /\ UNCHANGED collectVars

NextScan == EnterField \/ LeaveField

SpecScan == InitScan /\ [][NextScan]_vars

(***************************************************************************)
(* Properties of extract()                                                 *)
(***************************************************************************)
\* C1: extract(file, content) never raises: for every file content, each of
\* the three extractors returns a list of ExtractedQuery, also for template
\* files with gql`...` or graphql`...` templates and for files whose imports
\* cannot be read.
C1_ExtractNeverRaises ==
    (pc = "done" /\ extractor # "") => outcome.exc = NoException

(***************************************************************************)
(* Vocabulary of the properties of diff()                                  *)
(***************************************************************************)
Done == pc = "done"

\* query identity, error signature and deprecation signature, as tuples
Identity(q) == <<q.source_file, q.start_line, Slice(q.content, KeyContentLen)>>
ErrorSignature(i) == <<i.type, i.field_path, i.message>>
DeprecationSignature(i) == <<i.type, i.field_path>>

ErrorSeverity(i) == i.severity = ERROR
DeprecationKind(i) ==
    i.type \in {DEPRECATED_FIELD, DEPRECATED_ARGUMENT, DEPRECATED_ENUM_VALUE}

SameQuery(r1, r2) == Identity(r1.query) = Identity(r2.query)
HasCounterpart(c) == \E j \in 1..Len(target_results) : SameQuery(target_results[j], c)
HasCurrent(t) == \E i \in 1..Len(current_results) : SameQuery(current_results[i], t)

\* the target result a current result is paired with: the last one of its identity
Counterpart(c) ==
    target_results[CHOOSE j \in 1..Len(target_results) :
        /\ SameQuery(target_results[j], c)
        /\ \A k \in (j + 1)..Len(target_results) : ~SameQuery(target_results[k], c)]

MatchedIndexes == {i \in 1..Len(current_results) : HasCounterpart(current_results[i])}

Groups == 1..Len(categorized)
CurrentOf(k) == current_results[categorized[k].index]
TargetOf(k) == Counterpart(CurrentOf(k))

OfCategory(items, cat) == LET Is(item) == item.category = cat IN SelectSeq(items, Is)
IssueOf(item) == item.issue
TargetIssueOf(item) == item.target_issue

ErrorSignatures(res) ==
    {ErrorSignature(res.issues[i]) :
        i \in {j \in 1..Len(res.issues) : ErrorSeverity(res.issues[j])}}
DeprecationSignatures(res) ==
    {DeprecationSignature(res.issues[i]) :
        i \in {j \in 1..Len(res.issues) : DeprecationKind(res.issues[j])}}

\* the target issues that rules 2 and 4 speak of, in the target's order
NewTargetErrors(c, t) ==
    LET New(i) == ErrorSeverity(i) /\ ErrorSignature(i) \notin ErrorSignatures(c)
    IN  SelectSeq(t.issues, New)
NewTargetDeprecations(c, t) ==
    LET New(i) == DeprecationKind(i)
                  /\ DeprecationSignature(i) \notin DeprecationSignatures(c)
    IN  SelectSeq(t.issues, New)

RECURSIVE IsSubSeq(_, _)
IsSubSeq(a, b) ==
    IF a = <<>> THEN TRUE
    ELSE IF b = <<>> THEN FALSE
    ELSE IF Head(a) = Head(b) THEN IsSubSeq(Tail(a), Tail(b))
    ELSE IsSubSeq(a, Tail(b))

RECURSIVE Flatten(_, _)
Flatten(groups, n) ==
    IF n = 0 THEN <<>> ELSE Flatten(groups, n - 1) \o groups[n].items

OnlyStillValid(items) == Len(items) = 1 /\ items[1].category = STILL_VALID

\* C2: for every matched pair, the number of breaks_on_upgrade items equals
\* the number of error-severity target issues whose (type, fieldPath, message)
\* is absent from the current result, counted with multiplicity.
C2_BreaksOnePerNewTargetError ==
    Done => \A k \in Groups :
        Len(OfCategory(categorized[k].items, BREAKS_ON_UPGRADE))
            = Len(NewTargetErrors(CurrentOf(k), TargetOf(k)))

\* C3: for every matched pair, the number of becomes_deprecated items equals
\* the number of deprecation-kind target issues whose (type, fieldPath) is
\* absent from the current result, counted with multiplicity.
C3_BecomesOnePerNewTargetDeprecation ==
    Done => \A k \in Groups :
        Len(OfCategory(categorized[k].items, BECOMES_DEPRECATED))
            = Len(NewTargetDeprecations(CurrentOf(k), TargetOf(k)))

\* C4: for every matched pair, the already_broken items carry exactly the
\* error-severity issues of the current result and the deprecated_now items
\* exactly its deprecation-kind issues, one item per issue and in order,
\* whatever the target result holds; no other item carries a current issue.
C4_CurrentIssuesOneToOne ==
    Done => \A k \in Groups :
        LET items == categorized[k].items
            c == CurrentOf(k)
            Carries(item) == item.issue # None
        IN  /\ MapSeq(OfCategory(items, ALREADY_BROKEN), IssueOf)
                  = SelectSeq(c.issues, ErrorSeverity)
            /\ MapSeq(OfCategory(items, DEPRECATED_NOW), IssueOf)
                  = SelectSeq(c.issues, DeprecationKind)
            /\ \A n \in 1..Len(items) :
                  Carries(items[n])
                      <=> items[n].category \in {ALREADY_BROKEN, DEPRECATED_NOW}
            /\ Len(SelectSeq(items, Carries)) = Len(c.issues)

C4_Witness ==
    /\ Done
    /\ \E k \in Groups :
          /\ \E n \in 1..Len(CurrentOf(k).issues) : ErrorSeverity(CurrentOf(k).issues[n])
          /\ \E n \in 1..Len(CurrentOf(k).issues) : DeprecationKind(CurrentOf(k).issues[n])
          /\ TargetOf(k).issues # <<>>
          /\ Len(OfCategory(categorized[k].items, ALREADY_BROKEN)) = 1
          /\ Len(OfCategory(categorized[k].items, DEPRECATED_NOW)) = 1

\* C5: for every matched pair there is exactly one still_valid item if and
\* only if rules 1-4 produced no item, a still_valid item is the only item
\* of its query, and a query without issues in both runs yields exactly one
\* still_valid item and adds exactly 1 to summary.still_valid.
C5_StillValidIffNothingElse ==
    Done =>
        /\ \A k \in Groups :
              LET items == categorized[k].items
                  c == CurrentOf(k)
                  t == TargetOf(k)
                  stills == Len(OfCategory(items, STILL_VALID))
                  nothing == /\ SelectSeq(c.issues, ErrorSeverity) = <<>>
                             /\ NewTargetErrors(c, t) = <<>>
                             /\ SelectSeq(c.issues, DeprecationKind) = <<>>
                             /\ NewTargetDeprecations(c, t) = <<>>
              IN  /\ stills = (IF nothing THEN 1 ELSE 0)
                  /\ stills = 1 => Len(items) = 1
                  /\ (c.issues = <<>> /\ t.issues = <<>>) => OnlyStillValid(items)
        /\ result.summary.still_valid
              = Cardinality({k \in Groups : STILL_VALID \in
                    {categorized[k].items[n].category : n \in 1..Len(categorized[k].items)}})

C5_Witness ==
    /\ Done
    /\ \E k \in Groups :
          /\ CurrentOf(k).issues = <<>>
          /\ TargetOf(k).issues = <<>>
          /\ OnlyStillValid(categorized[k].items)
    /\ \E k \in Groups :
          /\ CurrentOf(k).issues = <<>>
          /\ Len(OfCategory(categorized[k].items, BECOMES_DEPRECATED)) = 1
    /\ result.summary.still_valid = 1

\* C6: after diff, summary.total_queries is the number of current results
\* with a target counterpart, every category counter is the number of items
\* of that category (so the counters sum to len(items)), and
\* summary.still_valid is the number of matched queries whose only item is
\* still_valid.
C6_SummaryCountsItems ==
    Done =>
        LET s == result.summary
            Count(cat) == Len(OfCategory(result.items, cat))
        IN  /\ s.total_queries = Cardinality(MatchedIndexes)
            /\ \A cat \in DiffCategory : s[cat] = Count(cat)
            /\ s.still_valid + s.deprecated_now + s.becomes_deprecated
                  + s.breaks_on_upgrade + s.already_broken = Len(result.items)
            /\ s.still_valid
                  = Cardinality({k \in Groups : OnlyStillValid(categorized[k].items)})

C6_Witness ==
    /\ Done
    /\ result.summary.total_queries = 2
    /\ result.summary.still_valid = 1
    /\ result.summary.already_broken = 1
    /\ result.summary.breaks_on_upgrade = 1
    /\ Len(result.items) = 3

\* C7: an error-severity issue whose (type, fieldPath, message) occurs in
\* both results of a matched pair is reported as already_broken, and no
\* breaks_on_upgrade item has a target issue of that signature.
C7_SharedErrorNeverBreaks ==
    Done => \A k \in Groups :
        LET items == categorized[k].items
            c == CurrentOf(k)
            t == TargetOf(k)
        IN  \A i \in 1..Len(c.issues), j \in 1..Len(t.issues) :
              ( /\ ErrorSeverity(c.issues[i])
                /\ ErrorSeverity(t.issues[j])
                /\ ErrorSignature(c.issues[i]) = ErrorSignature(t.issues[j]) )
              => /\ \E n \in 1..Len(items) :
                       /\ items[n].category = ALREADY_BROKEN
                       /\ items[n].issue = c.issues[i]
                 /\ \A n \in 1..Len(items) :
                       items[n].category = BREAKS_ON_UPGRADE
                       => ErrorSignature(items[n].target_issue)
                              # ErrorSignature(c.issues[i])

\* a shared error on different lines, next to an error new in the target
C7_Witness ==
    /\ Done
    /\ \E k \in Groups :
          /\ \E i \in 1..Len(CurrentOf(k).issues), j \in 1..Len(TargetOf(k).issues) :
                /\ ErrorSeverity(CurrentOf(k).issues[i])
                /\ ErrorSeverity(TargetOf(k).issues[j])
                /\ ErrorSignature(CurrentOf(k).issues[i])
                      = ErrorSignature(TargetOf(k).issues[j])
                /\ CurrentOf(k).issues[i].line # TargetOf(k).issues[j].line
          /\ Len(OfCategory(categorized[k].items, BREAKS_ON_UPGRADE)) = 1
          /\ Len(OfCategory(categorized[k].items, ALREADY_BROKEN)) = 1

\* C8: a deprecation whose (type, fieldPath) occurs in both results of a
\* matched pair yields no becomes_deprecated item, also when its reason,
\* message, line or column differ between the runs.
C8_SharedDeprecationNeverBecomes ==
    Done => \A k \in Groups :
        LET items == categorized[k].items
            c == CurrentOf(k)
            t == TargetOf(k)
        IN  \A i \in 1..Len(c.issues), j \in 1..Len(t.issues) :
              ( /\ DeprecationKind(c.issues[i])
                /\ DeprecationKind(t.issues[j])
                /\ DeprecationSignature(c.issues[i]) = DeprecationSignature(t.issues[j]) )
              => \A n \in 1..Len(items) :
                    items[n].category = BECOMES_DEPRECATED
                    => DeprecationSignature(items[n].target_issue)
                           # DeprecationSignature(c.issues[i])

\* the same deprecated field with another reason on another line
C8_Witness ==
    /\ Done
    /\ \E k \in Groups :
          \E i \in 1..Len(CurrentOf(k).issues), j \in 1..Len(TargetOf(k).issues) :
              /\ DeprecationKind(CurrentOf(k).issues[i])
              /\ DeprecationKind(TargetOf(k).issues[j])
              /\ DeprecationSignature(CurrentOf(k).issues[i])
                    = DeprecationSignature(TargetOf(k).issues[j])
              /\ CurrentOf(k).issues[i].deprecation_reason
                    # TargetOf(k).issues[j].deprecation_reason
              /\ CurrentOf(k).issues[i].line # TargetOf(k).issues[j].line
              /\ OfCategory(categorized[k].items, BECOMES_DEPRECATED) = <<>>

\* C9: a current result without a target counterpart contributes no item and
\* no count, the remaining current results are all processed, and target
\* results without a current counterpart contribute nothing either.
C9_UnmatchedSkipped ==
    Done =>
        LET matched == SelectSeq(current_results, HasCounterpart)
            wanted == SelectSeq(target_results, HasCurrent)
            alone == diff(matched, target_results)
            trimmed == diff(current_results, wanted)
        IN  /\ {categorized[k].index : k \in Groups} = MatchedIndexes
            /\ Len(categorized) = Cardinality(MatchedIndexes)
            /\ result.summary.total_queries = Cardinality(MatchedIndexes)
            /\ \A n \in 1..Len(result.items) :
                  HasCounterpart([query |-> result.items[n].query])
            /\ MatchedIndexes = {} => result = DiffResult
            /\ result = [items |-> alone.items, summary |-> alone.summary]
            /\ result = [items |-> trimmed.items, summary |-> trimmed.summary]

\* an unmatched current result ahead of a matched one
C9_Witness ==
    /\ Done
    /\ Len(current_results) = 2
    /\ ~HasCounterpart(current_results[1])
    /\ current_results[1].issues # <<>>
    /\ HasCounterpart(current_results[2])
    /\ Len(result.items) = 1
    /\ result.summary.total_queries = 1

\* C10: result.items is the concatenation of the per-query groups in the
\* order of current_results; inside a group the categories come in the order
\* already_broken, breaks_on_upgrade, deprecated_now, becomes_deprecated, and
\* the issues of each category come in the order of their source result.
Rank(cat) ==
    CASE cat = ALREADY_BROKEN -> 1
      [] cat = BREAKS_ON_UPGRADE -> 2
      [] cat = DEPRECATED_NOW -> 3
      [] cat = BECOMES_DEPRECATED -> 4
      [] OTHER -> 5

C10_ItemsInFixedOrder ==
    Done =>
        /\ result.items = Flatten(categorized, Len(categorized))
        /\ \A k \in Groups : \A j \in Groups :
              k < j => categorized[k].index < categorized[j].index
        /\ \A k \in Groups :
              LET items == categorized[k].items
                  c == CurrentOf(k)
                  t == TargetOf(k)
              IN  /\ \A n \in 1..Len(items) : items[n].query = c.query
                  /\ \A n \in 1..(Len(items) - 1) :
                        Rank(items[n].category) <= Rank(items[n + 1].category)
                  /\ IsSubSeq(MapSeq(OfCategory(items, ALREADY_BROKEN), IssueOf), c.issues)
                  /\ IsSubSeq(MapSeq(OfCategory(items, BREAKS_ON_UPGRADE), TargetIssueOf),
                              t.issues)
                  /\ IsSubSeq(MapSeq(OfCategory(items, DEPRECATED_NOW), IssueOf), c.issues)
                  /\ IsSubSeq(MapSeq(OfCategory(items, BECOMES_DEPRECATED), TargetIssueOf),
                              t.issues)

(***************************************************************************)
(* Properties of the template extractor                                    *)
(***************************************************************************)
Extracted == pc = "done" /\ extractor = "typescript" /\ outcome.exc = NoException
Mapped == pc = "mapped" /\ extractor = "typescript"

IsTemplate(st) == st.kind \in {"template", "gql"}
HasOperation(body) == \E k \in 1..Len(body) : body[k] = OpLine
IsPlain(body) == \A k \in 1..Len(body) : body[k].kind # "ref"
IsHollow(body) == \A k \in 1..Len(body) : body[k] = BlankLine

\* the blank lines that open a body, and the body that follows them
RECURSIVE LeadingBlanks(_)
LeadingBlanks(body) ==
    IF body = <<>> \/ Head(body) # BlankLine THEN 0 ELSE 1 + LeadingBlanks(Tail(body))
Inked(body) == SubSeq(body, LeadingBlanks(body) + 1, Len(body))

\* text[i] holds a placeholder ${name}
Interpolates(st, name) ==
    IsTemplate(st) /\ \E k \in 1..Len(st.body) : st.body[k] = Placeholder(name)

\* C11: a block of a template file whose variable name is the target of a
\* ${name} placeholder of any template of the same file is never emitted by
\* extract as an ExtractedQuery of its own, whatever its content (even if it
\* holds an operation).
C11_ReferencedNeverEmitted ==
    Extracted =>
        \A i, j \in 1..Len(content) :
            (IsTemplate(content[j]) /\ Interpolates(content[i], content[j].name))
                => \A q \in 1..Len(outcome.value) :
                       outcome.value[q].identifier # content[j].name

\* a block with an operation is the target of another block's placeholder,
\* and extract has emitted that other block
C11_Witness ==
    /\ Extracted
    /\ outcome.value # <<>>
    /\ \E i, j \in 1..Len(content) :
           /\ i # j
           /\ IsTemplate(content[j])
           /\ HasOperation(content[j].body)
           /\ Interpolates(content[i], content[j].name)
           /\ outcome.value[1].identifier = content[i].name

\* the `#graphql` templates of a text that build_fragment_map records
Recorded(text, name) ==
    {n \in 1..Len(text) : /\ text[n].kind = "template"
                          /\ text[n].name = name
                          /\ ~IsHollow(text[n].body)}

\* the files whose local templates a call for the file under extraction reads
ReadFiles ==
    {RootTs} \cup {content[n].path :
                      n \in {k \in 1..Len(content) :
                                 /\ content[k].kind = "import"
                                 /\ fs[content[k].path].state = Readable}}

HasTagged(text) == \E n \in 1..Len(text) : text[n].kind = "gql"

\* C12: build_fragment_map terminates on every import graph, cyclic ones
\* (a.ts imports b.ts imports a.ts, a.ts imports a.ts) included: it returns,
\* or raises the IndexError of a gql-tagged template; a call for a file that
\* is on the current import chain returns the empty map; and the outer call
\* returns the fragments of the rest: every local `#graphql` template, and
\* every name imported from a readable file that defines it, plain bodies
\* unchanged.
C12_CyclicImportsTerminate ==
    Mapped =>
        /\ outcome.exc \in {NoException, IndexError}
        /\ outcome.exc = IndexError <=> \E f \in ReadFiles : HasTagged(fs[f].content)
        /\ \A f \in DOMAIN fs : \A visited \in SUBSET (DOMAIN fs) :
               f \in visited =>
                   build_fragment_map(fs, f, fs[f].content, visited) = Returns(<<>>)
        /\ outcome.exc = NoException =>
               /\ \A n \in 1..Len(content) :
                      Recorded(content, content[n].name) # {} =>
                          LET last == CHOOSE k \in Recorded(content, content[n].name) :
                                          \A m \in Recorded(content, content[n].name) :
                                              m <= k
                          IN  /\ content[n].name \in DictKeys(outcome.value)
                              /\ IsPlain(content[last].body) =>
                                     DictGet(outcome.value, content[n].name)
                                         = Inked(content[last].body)
               /\ \A n \in 1..Len(content) :
                      (/\ content[n].kind = "import"
                       /\ content[n].path # RootTs
                       /\ fs[content[n].path].state = Readable
                       /\ Recorded(fs[content[n].path].content, content[n].name) # {})
                          => content[n].name \in DictKeys(outcome.value)

\* a.ts imports A from b.ts, which imports back from a.ts, and the map of
\* a.ts holds A
C12_Witness ==
    /\ Mapped
    /\ outcome.exc = NoException
    /\ \E n \in 1..Len(content) :
           /\ content[n] = Import("A", "A", LibTs)
           /\ fs[LibTs].state = Readable
           /\ \E k \in 1..Len(fs[LibTs].content) :
                  /\ fs[LibTs].content[k].kind = "import"
                  /\ fs[LibTs].content[k].path = RootTs
    /\ "A" \in DictKeys(outcome.value)

Resolved == pc = "resolved"

\* the place of the placeholder of a body that fragment_map can resolve, 0
\* when there is none (a body holds at most one placeholder)
Hole(body, fragment_map) ==
    LET holes == {k \in 1..Len(body) : /\ body[k].kind = "ref"
                                       /\ body[k].ref \in DictKeys(fragment_map)}
    IN  IF holes = {} THEN 0 ELSE CHOOSE k \in holes : TRUE

\* the body substituted at nesting level k: level 0 is the content itself,
\* level k + 1 the fragment that the placeholder of level k names
RECURSIVE BodyAt(_, _, _)
BodyAt(body, fragment_map, k) ==
    IF k = 0 THEN body
    ELSE LET outer == BodyAt(body, fragment_map, k - 1)
         IN  DictGet(fragment_map, outer[Hole(outer, fragment_map)].ref)

\* the nesting at which substitution stops: the first level without a
\* resolvable placeholder, max_depth at the latest
RECURSIVE StopLevel(_, _, _)
StopLevel(body, fragment_map, k) ==
    IF k = max_depth \/ Hole(BodyAt(body, fragment_map, k), fragment_map) = 0
    THEN k
    ELSE StopLevel(body, fragment_map, k + 1)

\* levels 0..k-1 opened around the text of level k, left as it is
RECURSIVE Nested(_, _, _, _)
Nested(body, fragment_map, k, inner) ==
    IF k = 0 THEN inner
    ELSE LET outer == BodyAt(body, fragment_map, k - 1)
             hole == Hole(outer, fragment_map)
         IN  Nested(body, fragment_map, k - 1,
                    SubSeq(outer, 1, hole - 1) \o inner
                        \o SubSeq(outer, hole + 1, Len(outer)))

\* C13: resolve_interpolations terminates for every fragment map, with
\* entries that name themselves or each other: the substitution is nested
\* max_depth (10) levels at most, and when that bound is hit the placeholder
\* ${name} that remains is left in the output.
C13_ResolutionBounded ==
    Resolved =>
        LET body == outcome.value.graphql_content
            fragment_map == outcome.value.fragment_map
            stop == StopLevel(body, fragment_map, 0)
            innermost == BodyAt(body, fragment_map, stop)
        IN  /\ stop <= max_depth
            /\ outcome.value.resolved = Nested(body, fragment_map, stop, innermost)
            /\ Hole(innermost, fragment_map) # 0 =>
                   /\ stop = max_depth
                   /\ \E k \in 1..Len(outcome.value.resolved) :
                          outcome.value.resolved[k] = innermost[Hole(innermost, fragment_map)]

\* a template that names itself has been resolved: the bound was hit
C13_Witness ==
    /\ Resolved
    /\ \E name \in DictKeys(outcome.value.fragment_map) :
           /\ outcome.value.graphql_content = DictGet(outcome.value.fragment_map, name)
           /\ Hole(outcome.value.graphql_content, outcome.value.fragment_map) # 0
           /\ outcome.value.graphql_content[
                  Hole(outcome.value.graphql_content, outcome.value.fragment_map)]
                  = Placeholder(name)
           /\ Len(outcome.value.graphql_content) > 1
    /\ Len(outcome.value.resolved) > max_depth

\* Scenario C: FRAGMENT holds a fragment, QUERY an operation and ${FRAGMENT}
ScenarioC(fragment, query) ==
    /\ fragment.name = "A"
    /\ IsPlain(fragment.body)
    /\ ~IsHollow(fragment.body)
    /\ ~HasOperation(fragment.body)
    /\ query.kind = "template"
    /\ query.name = "B"
    /\ HasOperation(query.body)
    /\ Interpolates(query, "A")

\* the body of query with its placeholder replaced by the body of fragment
Substituted(fragment, query) ==
    LET body == Inked(query.body)
        hole == CHOOSE k \in 1..Len(body) : body[k] = Placeholder("A")
    IN  SubSeq(body, 1, hole - 1) \o Inked(fragment.body)
            \o SubSeq(body, hole + 1, Len(body))

\* extract has returned one query, for QUERY, with the placeholder replaced
OneSubstitutedQuery ==
    /\ Len(outcome.value) = 1
    /\ outcome.value[1].identifier = "B"
    /\ outcome.value[1].content = Substituted(content[1], content[2])

\* C14 as the scenario is written: FRAGMENT is a template literal without tag
\* (`fragment F on Shop { name }`), QUERY a `#graphql` template with
\* ${FRAGMENT}; extract yields one query, for QUERY, in which ${FRAGMENT} is
\* replaced by the body of FRAGMENT, and none for FRAGMENT.
C14_ScenarioC_UntaggedFragment ==
    (/\ Extracted
     /\ Len(content) = 2
     /\ content[1].kind = "literal"
     /\ ScenarioC(content[1], content[2])) => OneSubstitutedQuery

\* C14, FRAGMENT being a `#graphql` template as well: extract yields one
\* query, for QUERY, in which ${FRAGMENT} is replaced by the body of
\* FRAGMENT, and none for FRAGMENT.
C14_ScenarioC_TaggedFragment ==
    (/\ Extracted
     /\ Len(content) = 2
     /\ content[1].kind = "template"
     /\ ScenarioC(content[1], content[2])) => OneSubstitutedQuery

C14_Witness ==
    /\ Extracted
    /\ content = <<Template("A", <<TextLine>>),
                   Template("B", <<OpLine, Placeholder("A")>>)>>
    /\ outcome.value # <<>>
    /\ outcome.value[1].content = <<OpLine, TextLine>>

\* the line is the header of an operation: query, mutation or subscription,
\* a name or none, and then "(", "{" or "@"
IsOperationHeader(line) == line.kind \in {"op", "tightop"}

Referenced(name) == \E i \in 1..Len(content) : Interpolates(content[i], name)

\* the content of block n after the resolution of its placeholders
ResolvedBody(n) ==
    resolve_interpolations(Inked(content[n].body),
                           build_fragment_map(fs, RootTs, content, {}).value,
                           max_depth)

EmittedAt(n) ==
    \E q \in 1..Len(outcome.value) :
        outcome.value[q].start_line = line_number(content, n) + 1

\* C23: a `#graphql` block that is not referenced and not empty is emitted
\* by extract if and only if its content, placeholders resolved, has a line
\* that begins with query, mutation or subscription, followed by a name or
\* none and then "(", "{" or "@"; a block without such a line is not emitted.
C23_EmittedIffOperation ==
    Extracted =>
        \A n \in 1..Len(content) :
            (/\ content[n].kind = "template"
             /\ ~IsHollow(content[n].body)
             /\ ~Referenced(content[n].name))
                => (EmittedAt(n) <=>
                       \E k \in 1..Len(ResolvedBody(n)) :
                           IsOperationHeader(ResolvedBody(n)[k]))

\* the last `#graphql` block that a text records under a name
LastRecorded(text, name) ==
    CHOOSE k \in Recorded(text, name) : \A m \in Recorded(text, name) : m <= k

\* import n of the file is of a file that can be read, and no later import
\* and no block of the file has its local name
ImportStands(n) ==
    /\ content[n].kind = "import"
    /\ content[n].path # RootTs
    /\ fs[content[n].path].state = Readable
    /\ Recorded(content, content[n].name) = {}
    /\ \A m \in (n + 1)..Len(content) :
           content[m].kind = "import" => content[m].name # content[n].name

\* C24: for each import of a file, an aliased one (X as Y) included,
\* build_fragment_map binds the local name of the import to the body of the
\* block that the imported file has under the imported name, and puts no
\* other name of the imported file into the map of the importing file.
C24_ImportBindsImportedName ==
    (Mapped /\ outcome.exc = NoException) =>
        /\ \A n \in 1..Len(content) :
               LET imported_text == fs[content[n].path].content
                   block == imported_text[LastRecorded(imported_text,
                                                       content[n].imported)]
               IN  (/\ ImportStands(n)
                    /\ Recorded(imported_text, content[n].imported) # {}
                    /\ IsPlain(block.body))
                       => /\ content[n].name \in DictKeys(outcome.value)
                          /\ DictGet(outcome.value, content[n].name)
                                 = Inked(block.body)
        /\ \A name \in DictKeys(outcome.value) :
               \E n \in 1..Len(content) :
                   /\ content[n].kind \in {"import", "template"}
                   /\ content[n].name = name

\* the import graph is the diamond, b.ts, c.ts and d.ts being readable
Diamond ==
    /\ content = DiamondRoot
    /\ DOMAIN fs = {RootTs, LibTs, MidTs, LeafTs}
    /\ fs[MidTs].state = Readable
    /\ fs[LeafTs].state = Readable

\* the first line of the block D of d.ts
LeafLine ==
    LET text == fs[LeafTs].content
    IN  Inked(text[LastRecorded(text, "D")].body)[1]

\* C25: the visited set of a call of build_fragment_map is the set of the
\* files on the import chain from the root file to the caller.  A file that
\* one import branch has resolved is not visited for a sibling branch: when
\* a.ts imports from b.ts and from c.ts and both import from d.ts, the block
\* of d.ts is resolved in both branches, whatever d.ts imports itself; a
\* file on the current chain is rejected with the empty map, a file on no
\* chain but that of a sibling is not.
C25_VisitedIsImportChain ==
    Mapped =>
        /\ Diamond =>
               /\ outcome.exc = NoException
               /\ DictKeys(outcome.value) = {"B", "C"}
               /\ DictGet(outcome.value, "B")[1] = TextLine
               /\ DictGet(outcome.value, "B")[2] = LeafLine
               /\ DictGet(outcome.value, "C")[1] = LeafLine
               /\ build_fragment_map(fs, LeafTs, fs[LeafTs].content, {RootTs, LibTs})
                      # Returns(<<>>)
               /\ build_fragment_map(fs, LeafTs, fs[LeafTs].content, {RootTs, MidTs})
                      # Returns(<<>>)
        /\ \A f \in DOMAIN fs : \A chain \in SUBSET (DOMAIN fs) :
               f \in chain =>
                   build_fragment_map(fs, f, fs[f].content, chain) = Returns(<<>>)

\* the diamond, d.ts importing from b.ts in turn: both branches have the
\* block of d.ts
C25_Witness ==
    /\ Mapped
    /\ Diamond
    /\ \E n \in 1..Len(fs[LeafTs].content) :
           fs[LeafTs].content[n] = Import("B", "B", LibTs)
    /\ DictGet(outcome.value, "B")[2] = OpLine
    /\ DictGet(outcome.value, "C")[1] = OpLine

\* the placeholders of a text that a fragment map can resolve
Resolvable(text, fragment_map) ==
    {k \in 1..Len(text) : /\ text[k].kind = "ref"
                          /\ text[k].ref \in DictKeys(fragment_map)}

\* C26: resolve_interpolations leaves every placeholder whose name is not a
\* key of the fragment map as it is and changes no text outside placeholders:
\* the output is the content with its resolvable placeholder, if it has one,
\* replaced; and when the fragments that the content names are nested
\* max_depth deep at most, without a cycle, the output has no placeholder
\* whose name is a key of the map.
C26_UnknownPlaceholdersStay ==
    Resolved =>
        LET body == outcome.value.graphql_content
            fragment_map == outcome.value.fragment_map
            resolved_content == outcome.value.resolved
            hole == Hole(body, fragment_map)
            stop == StopLevel(body, fragment_map, 0)
        IN  /\ hole = 0 => resolved_content = body
            /\ hole # 0 =>
                   /\ Len(resolved_content) >= Len(body) - 1
                   /\ SubSeq(resolved_content, 1, hole - 1) = SubSeq(body, 1, hole - 1)
                   /\ SubSeq(resolved_content,
                             Len(resolved_content) - (Len(body) - hole) + 1,
                             Len(resolved_content))
                          = SubSeq(body, hole + 1, Len(body))
            /\ \A k \in 1..Len(body) :
                   (body[k].kind = "ref" /\ body[k].ref \notin DictKeys(fragment_map))
                       => \E m \in 1..Len(resolved_content) :
                              resolved_content[m] = body[k]
            /\ Hole(BodyAt(body, fragment_map, stop), fragment_map) = 0 =>
                   /\ Resolvable(resolved_content, fragment_map) = {}
                   /\ \A k \in 1..Len(BodyAt(body, fragment_map, stop)) :
                          \E m \in 1..Len(resolved_content) :
                              resolved_content[m] = BodyAt(body, fragment_map, stop)[k]

\* fragments nested max_depth deep are all resolved, and the placeholder of
\* the innermost, which no block answers, is in the output
C26_Witness ==
    /\ Resolved
    /\ StopLevel(outcome.value.graphql_content, outcome.value.fragment_map, 0)
           = max_depth
    /\ Resolvable(outcome.value.resolved, outcome.value.fragment_map) = {}
    /\ Len(outcome.value.resolved) = max_depth + 2
    /\ outcome.value.resolved[max_depth + 2] = Placeholder("Z")

(***************************************************************************)
(* Properties of the heredoc extractor, and of the lines of both           *)
(***************************************************************************)
PhpExtracted == pc = "done" /\ extractor = "php" /\ outcome.exc = NoException

\* the heredoc and nowdoc blocks of a file that hold a line of text
NonEmptyBlocks(text) ==
    {n \in 1..Len(text) : /\ text[n].kind = "heredoc"
                          /\ \E k \in 1..Len(text[n].body) : ~IsBlank(text[n].body[k])}

\* C15: the heredoc extractor emits one ExtractedQuery per non-empty block of
\* the file: as many queries as there are such blocks, heredoc (<<<QUERY) and
\* nowdoc (<<<'QUERY') alike.
C15_OneQueryPerBlock ==
    PhpExtracted => Len(outcome.value) = Cardinality(NonEmptyBlocks(content))

\* the lines of a PHP file, and those of a template file
PhpHostLines == php_lines_between(content, 1, Len(content))

RECURSIVE TsLinesFrom(_, _)
TsLinesFrom(text, n) ==
    IF n > Len(text) THEN <<>>
    ELSE (IF text[n].kind = "template"
          THEN <<[kind |-> "opening", ref |-> text[n].name]>> \o text[n].body
                   \o <<[kind |-> "closing", ref |-> text[n].name]>>
          ELSE [k \in 1..LinesOf(text[n]) |-> [kind |-> "code", ref |-> ""]])
         \o TsLinesFrom(text, n + 1)
TsHostLines == TsLinesFrom(content, 1)

\* C16: for every query that the PHP and the template extractor emit from a
\* block without interpolation, start_line is the line of the file on which
\* the first line of the content lies, and get_absolute_line(r) the line of
\* the file that holds the r-th line of the content, also when blank lines
\* follow the opening marker.
C16_StartLineIsFirstContentLine ==
    /\ PhpExtracted =>
           \A q \in 1..Len(outcome.value) :
               \A r \in 1..Len(outcome.value[q].content) :
                   LET line == outcome.value[q].start_line + r - 1
                   IN  /\ line <= Len(PhpHostLines)
                       /\ unescape(<<PhpHostLines[line]>>)[1].text
                              = outcome.value[q].content[r].text
    /\ (Extracted /\ \A n \in 1..Len(content) : IsPlain(content[n].body)) =>
           \A q \in 1..Len(outcome.value) :
               \A r \in 1..Len(outcome.value[q].content) :
                   LET line == outcome.value[q].start_line + r - 1
                   IN  /\ line <= Len(TsHostLines)
                       /\ TsHostLines[line] = outcome.value[q].content[r]

(***************************************************************************)
(* Properties of analyze_many()                                            *)
(***************************************************************************)
Analyzed == pc = "analyzed"

\* for the issues of a result in their order, the locations reported: <<>>
\* where there was none
ReportedAt(answers) ==
    IF answers.parse_error # None THEN <<answers.parse_error.locations>>
    ELSE [n \in 1..Len(answers.validation_errors) |->
             answers.validation_errors[n].locations]
         \o [n \in 1..Len(answers.deprecated) |->
                 IF answers.deprecated[n].loc = None THEN <<>>
                 ELSE <<answers.deprecated[n].loc>>]

\* the issues of the analysis that come with a location: <<i, j>> for issue j
\* of result i
Located ==
    {ij \in (1..Len(current_results)) \X (1..(MaxReports + 2)) :
        /\ ij[2] <= Len(current_results[ij[1]].issues)
        /\ ij[2] <= Len(ReportedAt(library[ij[1]]))
        /\ ReportedAt(library[ij[1]])[ij[2]] # <<>>}
Unlocated ==
    {ij \in (1..Len(current_results)) \X (1..(MaxReports + 2)) :
        /\ ij[2] <= Len(current_results[ij[1]].issues)
        /\ ij[2] <= Len(ReportedAt(library[ij[1]]))
        /\ ReportedAt(library[ij[1]])[ij[2]] = <<>>}
IssueAt(ij) == current_results[ij[1]].issues[ij[2]]
QueryAt(ij) == current_results[ij[1]].query
RelativeAt(ij) == ReportedAt(library[ij[1]])[ij[2]][1]

\* the block of the PHP file that a query was taken from, in a file whose
\* blocks all hold text
AllBlocksInked ==
    \A n \in 1..Len(content) :
        content[n].kind = "heredoc" => n \in NonEmptyBlocks(content)
BlockOf(query) ==
    CHOOSE n \in NonEmptyBlocks(content) :
        php_line_number(content, n) + 1 = query.start_line
RECURSIVE BlankLinesAhead(_)
BlankLinesAhead(body) ==
    IF body = <<>> \/ ~IsBlank(Head(body)) THEN 0 ELSE 1 + BlankLinesAhead(Tail(body))

\* the line and the column in the file of the token that lies at a location
\* of the text of the query
HostLine(query, at) ==
    php_line_number(content, BlockOf(query)) + 1
        + BlankLinesAhead(content[BlockOf(query)].body) + at.line - 1
HostColumn(query, at) ==
    LET body == content[BlockOf(query)].body
    IN  at.column - query.content[at.line].indent
            + body[BlankLinesAhead(body) + at.line].indent

\* C17: every Issue of the analysis of an extracted query has the
\* coordinates of the file: issue.line and issue.column are the 1-based
\* line and column, in the source file, of the token the issue is about,
\* not those in the dedented and trimmed text of the query.
C17_IssueCoordinatesAbsolute ==
    (Analyzed /\ extractor = "php" /\ AllBlocksInked) =>
        \A ij \in Located :
            /\ IssueAt(ij).line = HostLine(QueryAt(ij), RelativeAt(ij))
            /\ IssueAt(ij).column = HostColumn(QueryAt(ij), RelativeAt(ij))

\* C18: at the three sites that make an issue (syntax error, validation
\* error, deprecation) a reported location (relLine, relCol) becomes
\* line = start_line + relLine - 1 and column = relCol if relLine > 1, else
\* start_col + relCol - 1; without a location the issue lies at
\* (start_line, start_col); and lines keep the order of the relative lines.
C18_LocationMapping ==
    Analyzed =>
        /\ \A ij \in Located :
               /\ IssueAt(ij).line = QueryAt(ij).start_line + RelativeAt(ij).line - 1
               /\ IssueAt(ij).column =
                      IF RelativeAt(ij).line > 1 THEN RelativeAt(ij).column
                      ELSE QueryAt(ij).start_col + RelativeAt(ij).column - 1
        /\ \A ij \in Unlocated :
               /\ IssueAt(ij).line = QueryAt(ij).start_line
               /\ IssueAt(ij).column = QueryAt(ij).start_col
        /\ \A ij, kl \in Located :
               (ij[1] = kl[1] /\ RelativeAt(ij).line <= RelativeAt(kl).line)
                   => IssueAt(ij).line <= IssueAt(kl).line

\* a query that does not start in column 1 has an issue on its first line
\* and one on a later line, and another issue has no location
C18_Witness ==
    /\ Analyzed
    /\ \E ij, kl \in Located :
           /\ ij[1] = kl[1]
           /\ QueryAt(ij).start_col > 1
           /\ RelativeAt(ij).line = 1
           /\ RelativeAt(kl).line > 1
           /\ IssueAt(ij).type = VALIDATION_ERROR
           /\ IssueAt(kl).type = DEPRECATED_FIELD

\* C19: when parse raises a syntax error for a query, its result has
\* is_valid = FALSE and one issue, a syntax_error of severity error:
\* neither validation nor the deprecation scan has run for it; and
\* analyze_many returns one result per query, in the order of the queries,
\* the others analyzed as they are alone.
C19_SyntaxErrorShortCircuits ==
    Analyzed =>
        /\ Len(current_results) = Len(outcome.value)
        /\ \A i \in 1..Len(current_results) :
               /\ current_results[i].query = outcome.value[i]
               /\ library[i].parse_error # None =>
                      /\ current_results[i].is_valid = FALSE
                      /\ Len(current_results[i].issues) = 1
                      /\ current_results[i].issues[1].type = SYNTAX_ERROR
                      /\ current_results[i].issues[1].severity = ERROR
                      /\ current_results[i].issues[1].message
                             = library[i].parse_error.message
               /\ library[i].parse_error = None =>
                      Len(current_results[i].issues)
                          = Len(library[i].validation_errors)
                                + Len(library[i].deprecated)

\* the first query of a batch has a syntax error, the second an issue
C19_Witness ==
    /\ Analyzed
    /\ Len(current_results) >= 2
    /\ library[1].parse_error # None
    /\ library[2].parse_error = None
    /\ current_results[2].issues # <<>>

\* C20: when parse returns a document, the deprecation scan runs whatever
\* validation found: the issues are one validation_error per validation
\* error, in the order of the validator, and then the deprecation issues in
\* the order of the traversal; no deprecation issue precedes a
\* validation_error.
C20_ValidationThenDeprecations ==
    Analyzed =>
        \A i \in 1..Len(current_results) :
            library[i].parse_error = None =>
                LET issues == current_results[i].issues
                    errors == library[i].validation_errors
                    nodes == library[i].deprecated
                IN  /\ Len(issues) = Len(errors) + Len(nodes)
                    /\ \A n \in 1..Len(errors) :
                           /\ issues[n].type = VALIDATION_ERROR
                           /\ issues[n].message = errors[n].message
                           /\ errors[n].locations # <<>> =>
                                  issues[n].line = current_results[i].query.start_line
                                                       + errors[n].locations[1].line - 1
                    /\ \A n \in 1..Len(nodes) :
                           /\ issues[Len(errors) + n].type = nodes[n].issue_type
                           /\ issues[Len(errors) + n].field_path = nodes[n].name
                           /\ nodes[n].loc # None =>
                                  issues[Len(errors) + n].line
                                      = current_results[i].query.start_line
                                            + nodes[n].loc.line - 1
                    /\ \A m, n \in 1..Len(issues) :
                           (DeprecationKind(issues[m]) /\ issues[n].type = VALIDATION_ERROR)
                               => n < m

\* a query has a validation error and a deprecation
C20_Witness ==
    /\ Analyzed
    /\ \E i \in 1..Len(current_results) :
           /\ library[i].parse_error = None
           /\ library[i].validation_errors # <<>>
           /\ library[i].deprecated # <<>>
           /\ Len(current_results[i].issues) = 2

(***************************************************************************)
(* Properties of the analyze command                                       *)
(***************************************************************************)
Exited == pc = "exited"

HasItem(categories) ==
    \E n \in 1..Len(result.items) : result.items[n].category \in categories

\* C21: get_exit_code returns 1 if and only if the result has a
\* breaks_on_upgrade or already_broken item, 2 if and only if it has none of
\* those but a deprecated_now or becomes_deprecated item, and 0 otherwise;
\* with exit code 0 every matched query has produced a still_valid item only.
C21_ExitCodeFromSummary ==
    Exited =>
        /\ exit_code \in {0, 1, 2}
        /\ exit_code = 1 <=> HasItem({BREAKS_ON_UPGRADE, ALREADY_BROKEN})
        /\ exit_code = 2 <=> /\ ~HasItem({BREAKS_ON_UPGRADE, ALREADY_BROKEN})
                             /\ HasItem({DEPRECATED_NOW, BECOMES_DEPRECATED})
        /\ exit_code = 0 <=>
               \A n \in 1..Len(result.items) : result.items[n].category = STILL_VALID
        /\ exit_code = 0 =>
               \A k \in Groups : OnlyStillValid(categorized[k].items)

\* breaking changes next to deprecations: the exit code is 1
C21_Witness ==
    /\ Exited
    /\ HasItem({BREAKS_ON_UPGRADE, ALREADY_BROKEN})
    /\ HasItem({DEPRECATED_NOW, BECOMES_DEPRECATED})
    /\ exit_code = 1

(***************************************************************************)
(* Properties of the deprecation scan                                      *)
(***************************************************************************)
\* the names of the fields that enclose field n, outermost first, and n
RECURSIVE PathTo(_, _)
PathTo(document, n) ==
    IF n = 0 THEN <<>>
    ELSE Append(PathTo(document, enclosing(document, n)), document[n].name)

\* the field that the scan has just entered, 0 if it has not entered one
Entered ==
    IF visitor.at = 0 \/ visit(ast, 1, <<>>)[visitor.at].kind # "enter" THEN 0
    ELSE visit(ast, 1, <<>>)[visitor.at].node

\* C22: whenever the deprecation scan has entered a field that the schema
\* resolves, the field-path stack holds the names of the fields that enclose
\* it, outermost first, and then the field itself, and the deprecated_argument
\* issues of the field are keyed by that path, dot-joined; also in documents
\* with fields that the schema does not know.
C22_FieldPathIsTraversalPath ==
    (pc = "visiting" /\ Entered # 0 /\ resolved(ast, Entered)) =>
        /\ visitor._field_path = PathTo(ast, Entered)
        /\ \A k \in 1..Len(ast[Entered].arguments) :
               LET issue == visitor.issues[Len(visitor.issues)
                                              - Len(ast[Entered].arguments) + k]
               IN  /\ issue.type = DEPRECATED_ARGUMENT
                   /\ issue.field_path = join(PathTo(ast, Entered))
                                             \o <<"($", ast[Entered].arguments[k], ")">>

(***************************************************************************)
(* Properties of the keys of diff()                                        *)
(***************************************************************************)
\* the queries and the issues that a call of diff() was given
DiffedQueries ==
    {current_results[i].query : i \in 1..Len(current_results)}
    \cup {target_results[i].query : i \in 1..Len(target_results)}

DiffedIssues ==
    UNION {{current_results[i].issues[k] : k \in 1..Len(current_results[i].issues)} :
              i \in 1..Len(current_results)}
    \cup UNION {{target_results[i].issues[k] : k \in 1..Len(target_results[i].issues)} :
                    i \in 1..Len(target_results)}

\* C27: the keys of diff() encode the tuples: two queries have the same
\* _query_key iff they agree on (source_file, start_line, content[0:100]) and
\* two issues have the same _issue_key iff they agree on
\* (type, field_path, message), whatever those fields hold.
C27_KeysEncodeTuples ==
    pc = "done" =>
        /\ \A q1 \in DiffedQueries, q2 \in DiffedQueries :
               (_query_key(q1) = _query_key(q2)) <=> (Identity(q1) = Identity(q2))
        /\ \A i1 \in DiffedIssues, i2 \in DiffedIssues :
               (_issue_key(i1) = _issue_key(i2))
                   <=> (ErrorSignature(i1) = ErrorSignature(i2))

(***************************************************************************)
(* Properties of the analyze command: both runs over one query list        *)
(***************************************************************************)
Compared == pc \in {"compared", "exited"}

\* C28: when both runs come from analyze_many over the same queries, every
\* current result has a target counterpart in diff(): total_queries is the
\* number of extracted queries and every extracted query, in its turn, adds
\* at least one DiffItem of its own to the items, also when extracted
\* queries share an identity key.
C28_EveryQueryCounted ==
    Compared =>
        /\ result.summary.total_queries = Len(outcome.value)
        /\ Len(categorized) = Len(outcome.value)
        /\ \A i \in 1..Len(categorized) :
               /\ categorized[i].index = i
               /\ Len(categorized[i].items) >= 1
               /\ \A k \in 1..Len(categorized[i].items) :
                      /\ categorized[i].items[k].query = outcome.value[i]
                      /\ \E n \in 1..Len(result.items) :
                             result.items[n] = categorized[i].items[k]

\* two extracted queries with one identity key, both counted
C28_Witness ==
    /\ Compared
    /\ Len(outcome.value) = 2
    /\ _query_key(outcome.value[1]) = _query_key(outcome.value[2])
    /\ result.summary.total_queries = 2
    /\ Len(categorized) = 2

(***************************************************************************)
(* Properties of the registry of QueryCollector                            *)
(***************************************************************************)
Provided == {"graphql", "php", "typescript"}

HasExtension(name, file_path) ==
    \E n \in 1..Len(extensions(name)) :
        extensions(name)[n] = lower(file_path.suffix)

\* C29: the registry that QueryCollector() builds routes a file by its
\* lower-cased extension: get_extractor returns the extractor of the package
\* that lists the extension (GraphQL: .graphql/.gql, PHP: .php, template:
\* .ts/.tsx) and None for every other extension, and collecting a file of
\* another extension yields no queries.
C29_RoutedByExtension ==
    _extractors = _register_default_extractors =>
        /\ pc = "routed" =>
               /\ \A name \in Provided :
                      HasExtension(name, routed_path) => extractor = Some(name)
               /\ (\A name \in Provided : ~HasExtension(name, routed_path))
                      => extractor = NoStr
        /\ (pc = "done" /\ \A name \in Provided : ~HasExtension(name, routed_path))
               => outcome = Returns(<<>>)

(***************************************************************************)
(* Properties of the severities that analyze() gives                       *)
(***************************************************************************)
\* C30: a result of analyze() is valid iff it has no issue of severity
\* error; syntax_error and validation_error issues have severity error, the
\* three deprecated_* types severity warning, and no issue has severity info.
C30_ValidIffNoError ==
    Analyzed =>
        \A r \in 1..Len(current_results) :
            LET res == current_results[r]
            IN  /\ res.is_valid <=> ~has_errors(res)
                /\ \A n \in 1..Len(res.issues) :
                       LET issue == res.issues[n]
                       IN  /\ issue.type \in {SYNTAX_ERROR, VALIDATION_ERROR}
                                  => issue.severity = ERROR
                           /\ issue.type \in {DEPRECATED_FIELD, DEPRECATED_ARGUMENT,
                                               DEPRECATED_ENUM_VALUE}
                                  => issue.severity = WARNING
                           /\ issue.severity # INFO

\* a batch with a result made invalid by a validation error and a valid
\* result that holds a deprecation
C30_Witness ==
    /\ Analyzed
    /\ \E r \in 1..Len(current_results) :
           /\ ~current_results[r].is_valid
           /\ \E n \in 1..Len(current_results[r].issues) :
                  current_results[r].issues[n].type = VALIDATION_ERROR
    /\ \E r \in 1..Len(current_results) :
           /\ current_results[r].is_valid
           /\ \E n \in 1..Len(current_results[r].issues) :
                  current_results[r].issues[n].severity = WARNING

====
